---- MODULE Spec2Model ----
(***************************************************************************)
(* EventGoRound v2: the tick-driven EventLoop and its time-indexed           *)
(* eventStorage.                                                           *)
(*                                                                         *)
(* Processes: the coordinator goroutine (run), the callers of the public   *)
(* API (ScheduleEvent, Pause, Unpause, Stop), one goroutine per fired      *)
(* event (executeHandler), and the wall clock.  Every step is one critical *)
(* section or one channel operation of the Go code.                        *)
(*                                                                         *)
(* Environment: callers use the loop between Start() and Stop(), as every  *)
(* test and example of the repository does; Start() and Stop() are called  *)
(* once (a second Stop() would close a closed channel).                    *)
(***************************************************************************)
EXTENDS Integers, Sequences, FiniteSets, TLC

\* ------------------------------------------------------------------ bounds
MaxTime == 2           \* the clock runs from 0 to MaxTime seconds
MaxCalls == 1          \* ScheduleEvent calls in a run of Spec
SchedCalls == 2        \* ScheduleEvent calls in a run of SpecSched
ExecCalls == 2         \* ScheduleEvent calls in a run of SpecExec
StopCalls == 2         \* ScheduleEvent calls in a run of SpecStop
PauseCalls == 2        \* ScheduleEvent calls in a run of SpecPause
BurstCalls == 3        \* ScheduleEvent calls in a run of SpecBurst
PairCalls == 1         \* ScheduleEvent calls in a run of SpecPausePair
PairToggles == 3       \* Pause/Unpause calls in a run of SpecPausePair
RegCalls == 1          \* ScheduleEvent calls in a run of SpecRegistry
RegToggles == 1        \* Pause/Unpause calls in a run of SpecRegistry
FullCalls == 2         \* ScheduleEvent calls in a run of SpecFull
SmallCap == 1          \* the capacity of eventChan, scaled down, in SpecFull
LogCalls == 1          \* ScheduleEvent calls in a run of SpecLog
LogToggles == 1        \* Pause calls in a run of SpecLog
MaxToggles == 2        \* Pause/Unpause calls in a run of Spec
QueueSize == 2         \* the argument of NewEventManager
EmCalls == 3           \* client calls on the EventManager in a run
EmRuns == 1            \* calls of EventManager.Run in a run
StoreOps == 4          \* calls of eventStorage methods in a run of SpecStore

HangCalls == 2         \* ScheduleEvent calls in a run of SpecHang
HangToggles == 1       \* Pause/Unpause calls in a run of SpecHang
LiveCalls == 1         \* ScheduleEvent calls in a run of SpecLive
LiveToggles == 2       \* Pause/Unpause calls in a run of SpecLive
MaxBytes == 3          \* the maxBytes argument of NewRotatingFileWriter, scaled down
WriteCalls == 3        \* calls of RotatingFileWriter.Write in a run
\* -------------------------------------------------------------- constants
EventChanCap == 2000   \* make(chan Event, 2000)
maxBackups == 5        \* rotate: maxBackups := 5

Procs == {"p1", "p2", "p3"}

\* the listeners a client registers, with their Type()
EmListeners == {"la", "lb", "lc"}
Type(listener) == IF listener = "lc" THEN 2 ELSE 1

\* the goroutines that call the methods of one eventStorage
StoreProcs == {"g1", "g2"}

\* the events they add: two of them share the key Timestamp + Duration = 1
StoreEvents == {[Timestamp |-> 0, Duration |-> 0],
                [Timestamp |-> 0, Duration |-> 1],
                [Timestamp |-> 1, Duration |-> 0],
                [Timestamp |-> 2, Duration |-> 0]}

\* the arguments of getAndRemove, getTimestampsUpTo and hasPastEvents
StoreTimes == 0..3

\* the goroutines that write to one RotatingFileWriter
Writers == {"w1", "w2"}

\* len(p) of the data a Write is given: no larger than maxBytes
DataLengths == 0..MaxBytes

\* the event types a client dispatches
EmTypes == {1, 2}

\* (timestamp offset from the caller's now, duration) pairs a caller uses
\* and the handler name; "nope" is not registered
Requests == {<<-6, 1, "ok">>, <<-3, 0, "ok">>, <<-1, 0, "boom">>,
             <<0, 0, "ok">>, <<0, 2, "ok">>, <<0, 0, "nope">>}

\* the requests of the scheduling scenarios: past, current and future
SchedRequests == {<<-6, 1, "ok">>, <<-1, 0, "boom">>, <<0, 0, "ok">>,
                  <<0, 2, "ok">>}

\* the requests made while handlers run: a panicking handler and a sound one
ExecRequests == {<<-1, 0, "boom">>, <<0, 0, "ok">>}

\* the requests made while a second caller stops the loop
StopRequests == {<<-6, 1, "ok">>, <<-1, 0, "boom">>, <<0, 0, "ok">>}

\* the request made while a second caller pauses and resumes the loop
PauseRequests == {<<-1, 0, "ok">>}

\* the request made while the registry changes
RegRequests == {<<-1, 0, "ok">>}

\* the callables a test registers under a name
Callables == {"fnOk", "fnBoom"}

\* the request made against a full submission channel
FullRequests == {<<0, 0, "ok">>}

\* the calls of SpecLog: an overdue event whose handler panics, and a name
\* that is not registered
LogRequests == {<<-1, 0, "boom">>, <<0, 0, "nope">>}

\* the *LogConfig argument of NewEventLoop: nil, or a pointer to a LogConfig
LogConfigs == [nil : BOOLEAN, Enabled : BOOLEAN, IncludeInfo : BOOLEAN]

\* the requests of the past-events scenario: fireAt now-5, now-3, now-1
BurstRequests == {<<-6, 1, "ok">>, <<-3, 0, "ok">>, <<-1, 0, "boom">>}

ErrNil == "nil"
ErrPaused == "event loop is paused"
ErrCatchingUp == "currently catching up with past events"
ErrHandlerNotFound == "handler not found"
Pending == "pending"

NoCall == [id |-> 0]

VARIABLES
    clock,        \* time.Now().Unix()
    storage,      \* eventStorage.events: fireAt -> sequence of events
    eventChan,    \* EventLoop.eventChan (buffered)
    stopChan,     \* EventLoop.stopChan: "open" or "closed"
    isCatchingUp, \* EventLoop.isCatchingUp
    isPaused,     \* EventLoop.isPaused
    runPc,        \* position of the coordinator goroutine
    paused,       \* run: local paused
    currentTime,  \* processTick: local currentTime
    timestamps,   \* processCatchUp: the timestamps not yet replayed
    pc,           \* position of each caller
    local,        \* the frame of a caller inside ScheduleEvent
    callLog,      \* history: one record per ScheduleEvent call, by call id,
                  \* with the registry lookups made and the callable resolved
    toggles,      \* history: number of Pause/Unpause calls made
    fired,        \* history: launches of executeHandler, in launch order
    execs,        \* state of the goroutine launched for each fired event
    tickStart,    \* history: Len(fired) when the tick in progress began
    overdue,      \* history: ids stored with fireAt < now when the tick began
    stopInfo,     \* history: where the coordinator was when Stop() was called
    registry,     \* mockRegistry.handlers: name -> callable
    logger,       \* EventLoop.logger # nil
    includeInfo,  \* EventLoop.includeInfo
    logWriter,    \* EventLoop.logWriter: "nil", "open" or "closed"
    logged,       \* the messages written to the log file
    running,          \* EventManager.running
    eventsPrioQueue,  \* EventManager.eventsPrioQueue: buffer and closed flag
    eventsQueue,      \* EventManager.eventsQueue: buffer and closed flag
    genericListeners, \* EventManager.genericListeners: type -> listeners
    emRun,            \* position of the goroutine that calls Run
    emCall,           \* the frame of the client inside an EventManager call
    handled,          \* history: the handle() calls made by Run, in order
    emLog,            \* history: how each client call ended
    events,           \* eventStorage.events of a store used on its own
    mu,               \* eventStorage.mu: the writer and the readers holding it
    stCall,           \* the frame of each goroutine inside a store method
    stCalls,          \* history: number of store methods called
    inserted,         \* history: number of events appended by add
    disk,             \* the files at filepath (0) and filepath.i (i): each
                      \* absent, or the lengths of the writes it holds
    currentFile,      \* RotatingFileWriter.currentFile: "nil" or "open"
    currentSize,      \* RotatingFileWriter.currentSize
    rfwMu,            \* RotatingFileWriter.mu: the goroutine holding it
    rfwCall,          \* the frame of each goroutine inside Write
    writeLog          \* history: one record per Write call

\* the loop and its callers without the log
schedVars == <<clock, storage, eventChan, stopChan, isCatchingUp, isPaused,
               runPc, paused, currentTime, timestamps, pc, local, callLog,
               toggles, fired, execs, tickStart, overdue, stopInfo, registry>>

logVars == <<logger, includeInfo, logWriter, logged>>

\* the legacy EventManager
emVars == <<running, eventsPrioQueue, eventsQueue, genericListeners, emRun,
            emCall, handled, emLog>>

\* the objects of the package other than the EventLoop and its registry
\* an eventStorage called from several goroutines
storeVars == <<events, mu, stCall, stCalls, inserted>>

\* a RotatingFileWriter and the directory of its file
rfwVars == <<disk, currentFile, currentSize, rfwMu, rfwCall, writeLog>>

elsewhere == <<emVars, storeVars, rfwVars>>

vars == <<schedVars, logVars, elsewhere>>

\* ------------------------------------------------------------ the registry
\* the handlers registered before the loop is used: name -> callable
Registry == [ok |-> "fnOk", boom |-> "fnBoom"]

\* mockRegistry.RegisterHandler: m.handlers[name] = handler
RegisterHandler(name, handler) ==
    /\ registry' = [n \in DOMAIN registry \cup {name} |->
                        IF n = name THEN handler ELSE registry[n]]
    /\ UNCHANGED <<clock, storage, eventChan, stopChan, isCatchingUp, isPaused,
                   runPc, paused, currentTime, timestamps, pc, local, callLog,
                   toggles, fired, execs, tickStart, overdue, stopInfo>>
    /\ UNCHANGED <<logger, includeInfo, logWriter, logged>>
    /\ UNCHANGED elsewhere

GetHandler(name) ==
    IF name \in DOMAIN registry
    THEN [handler |-> registry[name], err |-> ErrNil]
    ELSE [handler |-> "nil", err |-> ErrHandlerNotFound]

\* the body of a callable: TRUE when it panics
Panics(fn) == fn = "fnBoom"

\* ------------------------------------------------------------ eventStorage
newEventStorage == << >>

\* add with the bucket keyed by event.Timestamp alone
addAtTimestamp(es, event) ==
    LET timestamp == event.Timestamp
    IN  IF timestamp \in DOMAIN es
        THEN [es EXCEPT ![timestamp] = Append(@, event)]
        ELSE es @@ (timestamp :> <<event>>)

\* add with the event put at the front of its bucket
addPrepending(es, event) ==
    LET timestamp == event.Duration + event.Timestamp
    IN  IF timestamp \in DOMAIN es
        THEN [es EXCEPT ![timestamp] = <<event>> \o @]
        ELSE es @@ (timestamp :> <<event>>)

add(es, event) ==
    LET timestamp == event.Duration + event.Timestamp
    IN  IF timestamp \in DOMAIN es
        THEN [es EXCEPT ![timestamp] = Append(@, event)]
        ELSE es @@ (timestamp :> <<event>>)

\* getAndRemove without the delete
getAndKeep(es, timestamp) ==
    [events  |-> IF timestamp \in DOMAIN es THEN es[timestamp] ELSE << >>,
     storage |-> es]

getAndRemove(es, timestamp) ==
    [events  |-> IF timestamp \in DOMAIN es THEN es[timestamp] ELSE << >>,
     storage |-> [k \in DOMAIN es \ {timestamp} |-> es[k]]]

\* the order in which `range es.events` yields the selected keys
RECURSIVE RangeKeys(_)
RangeKeys(S) ==
    IF S = {} THEN << >>
    ELSE LET k == CHOOSE x \in S : \A y \in S : x >= y
         IN  <<k>> \o RangeKeys(S \ {k})

Swap(s, i, j) == [s EXCEPT ![i] = s[j], ![j] = s[i]]

\* the inner loop with the comparison turned around
RECURSIVE SortInnerDescending(_, _, _)
SortInnerDescending(s, i, j) ==
    IF j > Len(s) THEN s
    ELSE SortInnerDescending(IF s[i] < s[j] THEN Swap(s, i, j) ELSE s, i, j + 1)

\* the nested i/j loops of getTimestampsUpTo
RECURSIVE SortInner(_, _, _)
SortInner(s, i, j) ==
    IF j > Len(s) THEN s
    ELSE SortInner(IF s[i] > s[j] THEN Swap(s, i, j) ELSE s, i, j + 1)

\* the sort with the outer loop left after its first round
SortOuterOnePass(s, i) ==
    IF i > Len(s) - 1 THEN s
    ELSE SortInner(s, i, i + 1)

RECURSIVE SortOuter(_, _)
SortOuter(s, i) ==
    IF i > Len(s) - 1 THEN s
    ELSE SortOuter(SortInner(s, i, i + 1), i + 1)

\* getTimestampsUpTo without its test of the bound: every key is returned
getTimestampsAll(es, t) == SortOuter(RangeKeys(DOMAIN es), 1)

\* getTimestampsUpTo with the bound excluded
getTimestampsBelow(es, t) ==
    SortOuter(RangeKeys({ts \in DOMAIN es : ts < t}), 1)

getTimestampsUpTo(es, t) ==
    SortOuter(RangeKeys({ts \in DOMAIN es : ts <= t}), 1)

\* hasPastEvents without its test of the key: true for any stored key
hasPastEventsAny(es, t) == DOMAIN es # {}

\* hasPastEvents with the bound included
hasPastEventsInclusive(es, t) == \E ts \in DOMAIN es : ts <= t

hasPastEvents(es, t) == \E ts \in DOMAIN es : ts < t

\* make(chan eventHandler, queueSize)
MakeChan == [buf |-> << >>, closed |-> FALSE]

\* the goroutine is in no method of the store
NoStCall == [op |-> "none", pc |-> "idle"]

\* the client is in no EventManager call
\* a path of the directory with no file, and a file just created
NoFile == [exists |-> FALSE, data |-> << >>]
EmptyFile == [exists |-> TRUE, data |-> << >>]

\* a goroutine outside Write
NoWrite == [pc |-> "idle", id |-> 0, p |-> 0]

NoEmCall == [op |-> "none", pc |-> "idle"]

\* --------------------------------------------------------------- helpers
FireAt(e) == e.Timestamp + e.Duration

StoredEvents == UNION {{storage[k][i] : i \in 1..Len(storage[k])} : k \in DOMAIN storage}
StoredIds == {e.id : e \in StoredEvents}
ChanIds == {eventChan[i].id : i \in 1..Len(eventChan)}
FiredIds == {fired[i].id : i \in 1..Len(fired)}
HeldIds == {local[p].id : p \in {q \in Procs : pc[q] = "schedSend"}}
CallIds == 1..Len(callLog)
Registered(name) == name \in DOMAIN registry

\* NewEventLoop, the fields that scheduling reads
InitSched ==
    /\ clock = 0
    /\ storage = newEventStorage
    /\ eventChan = << >>
    /\ stopChan = "open"
    /\ isCatchingUp = FALSE
    /\ isPaused = FALSE
    /\ runPc = "idle"
    /\ paused = FALSE
    /\ currentTime = 0
    /\ timestamps = << >>
    /\ pc = [p \in Procs |-> "idle"]
    /\ local = [p \in Procs |-> NoCall]
    /\ callLog = << >>
    /\ toggles = 0
    /\ fired = << >>
    /\ execs = << >>
    /\ tickStart = 0
    /\ overdue = {}
    /\ stopInfo = [pc |-> "none", overdue |-> {}]
    /\ registry = Registry

\* NewEventManager(QueueSize): two open, empty queues, no listener, not running
NewEventManager ==
    /\ running = FALSE
    /\ eventsPrioQueue = MakeChan
    /\ eventsQueue = MakeChan
    /\ genericListeners = << >>
    /\ emRun = [pc |-> "idle", calls |-> 0]
    /\ emCall = NoEmCall
    /\ handled = << >>
    /\ emLog = << >>

\* newEventStorage(), with its mutex free and no method called yet
InitStore ==
    /\ events = newEventStorage
    /\ mu = [w |-> "none", r |-> {}]
    /\ stCall = [g \in StoreProcs |-> NoStCall]
    /\ stCalls = 0
    /\ inserted = 0

\* no RotatingFileWriter built yet, an empty directory
InitWriter ==
    /\ disk = [i \in 0..maxBackups |-> NoFile]
    /\ currentFile = "nil"
    /\ currentSize = 0
    /\ rfwMu = "none"
    /\ rfwCall = [g \in Writers |-> NoWrite]
    /\ writeLog = << >>

\* NewEventLoop(tickInterval, registry, nil): no logger, no writer
Init ==
    /\ InitSched
    /\ NewEventManager
    /\ InitStore
    /\ InitWriter
    /\ logger = FALSE
    /\ includeInfo = FALSE
    /\ logWriter = "nil"
    /\ logged = {}

\* NewEventLoop with any log configuration: the logger is set only when the
\* configuration is there, is enabled and NewRotatingFileWriter returned no
\* error; includeInfo is copied only then
InitLog ==
    /\ InitSched
    /\ NewEventManager
    /\ InitStore
    /\ InitWriter
    /\ \E logConfig \in LogConfigs, opened \in BOOLEAN :
          LET on == ~logConfig.nil /\ logConfig.Enabled /\ opened
          IN  /\ logger = on
              /\ includeInfo = (on /\ logConfig.IncludeInfo)
              /\ logWriter = IF on THEN "open" ELSE "nil"
    /\ logged = {}

Started == runPc # "idle"
InUse == Started /\ stopChan = "open"
NextId == Len(callLog) + 1
SetErr(id, err) == [callLog EXCEPT ![id].err = err]

\* no Pause() or Unpause() is in progress and the loop is not paused
Quiet ==
    /\ ~isPaused
    /\ ~paused
    /\ \A q \in Procs : pc[q] \notin {"pauseSend", "unpauseSend"}

\* the process is alive: no panic escaped a goroutine
Alive == \A id \in DOMAIN execs : execs[id] # "crashed"

\* ---------------------------------------------------------------- the log
\* RotatingFileWriter.Write: the record reaches the file when the file is
\* open; on a closed writer os.File.Write returns an error that slog drops
Write(msg) == IF logWriter = "open" THEN logged \cup {msg} ELSE logged

\* logInfo: if el.logger != nil && el.includeInfo { el.logger.Info(...) }
InfoLogged(msg) == IF logger /\ includeInfo THEN Write(msg) ELSE logged

\* logError: if el.logger != nil { el.logger.Error(...) }
ErrorLogged(msg) == IF logger THEN Write(msg) ELSE logged

logInfo(msg) ==
    /\ logged' = InfoLogged(msg)
    /\ UNCHANGED <<logger, includeInfo, logWriter>>

\* logError without its nil test: el.logger.Error on a nil logger panics, the
\* call does not return
logErrorUnguarded(msg) ==
    /\ logger
    /\ logged' = Write(msg)
    /\ UNCHANGED <<logger, includeInfo, logWriter>>

logError(msg) ==
    /\ logged' = ErrorLogged(msg)
    /\ UNCHANGED <<logger, includeInfo, logWriter>>

\* a step that logs nothing
NoLog == UNCHANGED logVars

\* processTimestamp: el.logInfo("processing events") unless the bucket is empty
processTimestampLog(timestamp) ==
    IF timestamp \in DOMAIN storage
    THEN logInfo("processing events")
    ELSE NoLog

\* ---------------------------------------------------------------- callers
\* Start: go el.run()
StartSched ==
    /\ runPc = "idle"
    /\ runPc' = "select"
    /\ UNCHANGED <<clock, storage, eventChan, stopChan, isCatchingUp, isPaused,
                   paused, currentTime, timestamps, pc, local, callLog,
                   toggles, fired, execs, tickStart, overdue, stopInfo>>
    /\ UNCHANGED <<registry, elsewhere>>

\* Start with its el.logInfo
Start ==
    /\ StartSched
    /\ logInfo("event loop started")

\* Stop: close(el.stopChan)
StopSched(p) ==
    /\ Alive /\ InUse
    /\ pc[p] = "idle"
    /\ stopChan' = "closed"
    /\ stopInfo' = [pc |-> runPc, overdue |-> overdue \ FiredIds]
    /\ UNCHANGED <<clock, storage, eventChan, isCatchingUp, isPaused, runPc,
                   paused, currentTime, timestamps, pc, local, callLog,
                   toggles, fired, execs, tickStart, overdue>>
    /\ UNCHANGED <<registry, elsewhere>>

\* Stop with its el.logInfo and el.logWriter.Close()
Stop(p) ==
    /\ StopSched(p)
    /\ logged' = InfoLogged("event loop stopping")
    /\ logWriter' = IF logWriter # "nil" THEN "closed" ELSE logWriter
    /\ UNCHANGED <<logger, includeInfo>>

\* a ScheduleEvent that consults the registry before the paused flag
SchedCheckRegistryFirst(p, req) ==
    /\ Alive /\ InUse
    /\ pc[p] = "idle"
    /\ LET r == GetHandler(req[3])
           err == IF r.err # ErrNil THEN ErrHandlerNotFound
                  ELSE IF isPaused THEN ErrPaused ELSE Pending
       IN  /\ callLog' = Append(callLog,
                            [Timestamp |-> clock + req[1], Duration |-> req[2],
                             Handler |-> req[3], at |-> clock,
                             lookups |-> 1, resolved |-> r.handler,
                             err |-> err])
           /\ IF err # Pending
              THEN UNCHANGED <<pc, local>>
              ELSE /\ pc' = [pc EXCEPT ![p] = "schedCatchingUp"]
                   /\ local' = [local EXCEPT ![p] =
                                   [id |-> NextId, cu |-> isCatchingUp,
                                    quiet |-> Quiet, tg |-> toggles]]
    /\ UNCHANGED <<clock, storage, eventChan, stopChan, isCatchingUp, isPaused,
                   runPc, paused, currentTime, timestamps, toggles, fired,
                   execs, tickStart, overdue, stopInfo>>
    /\ UNCHANGED <<registry, elsewhere>>

\* ScheduleEvent, first check: if el.IsPaused() { return error }
SchedCheckPausedSched(p, req) ==
    /\ Alive /\ InUse
    /\ pc[p] = "idle"
    /\ callLog' = Append(callLog,
                         [Timestamp |-> clock + req[1], Duration |-> req[2],
                          Handler |-> req[3], at |-> clock,
                          lookups |-> 0, resolved |-> "nil",
                          err |-> IF isPaused THEN ErrPaused ELSE Pending])
    /\ IF isPaused
       THEN UNCHANGED <<pc, local>>
       ELSE /\ pc' = [pc EXCEPT ![p] = "schedCatchingUp"]
            /\ local' = [local EXCEPT ![p] =
                            [id |-> NextId, cu |-> isCatchingUp,
                             quiet |-> Quiet, tg |-> toggles]]
    /\ UNCHANGED <<clock, storage, eventChan, stopChan, isCatchingUp, isPaused,
                   runPc, paused, currentTime, timestamps, toggles, fired,
                   execs, tickStart, overdue, stopInfo>>
    /\ UNCHANGED <<registry, elsewhere>>

\* ScheduleEvent, first check, with its el.logError
SchedCheckPaused(p, req) ==
    /\ SchedCheckPausedSched(p, req)
    /\ IF isPaused
       THEN logError("event scheduling failed - loop is paused")
       ELSE NoLog

\* a ScheduleEvent without the catching-up gate
SchedCheckCatchingUpOpen(p) ==
    /\ Alive
    /\ pc[p] = "schedCatchingUp"
    /\ pc' = [pc EXCEPT ![p] = "schedGetHandler"]
    /\ UNCHANGED <<clock, storage, eventChan, stopChan, isCatchingUp, isPaused,
                   runPc, paused, currentTime, timestamps, local, callLog,
                   toggles, fired, execs, tickStart, overdue, stopInfo>>
    /\ UNCHANGED <<registry, elsewhere>>

\* ScheduleEvent, second check: if el.IsCatchingUp() { return error }
SchedCheckCatchingUpSched(p) ==
    /\ Alive
    /\ pc[p] = "schedCatchingUp"
    /\ IF isCatchingUp
       THEN /\ callLog' = SetErr(local[p].id, ErrCatchingUp)
            /\ pc' = [pc EXCEPT ![p] = "idle"]
            /\ local' = [local EXCEPT ![p] = NoCall]
       ELSE /\ pc' = [pc EXCEPT ![p] = "schedGetHandler"]
            /\ UNCHANGED <<callLog, local>>
    /\ UNCHANGED <<clock, storage, eventChan, stopChan, isCatchingUp, isPaused,
                   runPc, paused, currentTime, timestamps, toggles, fired,
                   execs, tickStart, overdue, stopInfo>>
    /\ UNCHANGED <<registry, elsewhere>>

\* ScheduleEvent, second check, with its el.logError
SchedCheckCatchingUp(p) ==
    /\ SchedCheckCatchingUpSched(p)
    /\ IF pc'[p] = "idle"
       THEN logError("event scheduling failed - currently catching up")
       ELSE NoLog

\* a ScheduleEvent that returns the handler-not-found error and submits the
\* event all the same
SchedGetHandlerLenient(p) ==
    /\ Alive
    /\ pc[p] = "schedGetHandler"
    /\ LET id == local[p].id
           c == callLog[id]
           r == GetHandler(c.Handler)
           looked == [callLog EXCEPT ![id].lookups = @ + 1,
                                     ![id].resolved = r.handler]
           event == [id |-> id, Timestamp |-> c.Timestamp,
                     Duration |-> c.Duration, handler |-> r.handler,
                     Handler |-> c.Handler, Payload |-> id]
       IN  IF r.err # ErrNil
           THEN /\ callLog' = [looked EXCEPT ![id].err = ErrHandlerNotFound]
                /\ pc' = [pc EXCEPT ![p] = "idle"]
                /\ local' = [local EXCEPT ![p] = NoCall]
                /\ eventChan' = Append(eventChan, event)
           ELSE /\ local' = [local EXCEPT ![p] = event]
                /\ pc' = [pc EXCEPT ![p] = "schedSend"]
                /\ callLog' = looked
                /\ UNCHANGED eventChan
    /\ UNCHANGED <<clock, storage, stopChan, isCatchingUp, isPaused,
                   runPc, paused, currentTime, timestamps, toggles, fired,
                   execs, tickStart, overdue, stopInfo>>
    /\ UNCHANGED <<registry, elsewhere>>

\* ScheduleEvent: handler, err := el.registry.GetHandler(handlername), then
\* the Event literal
SchedGetHandlerSched(p) ==
    /\ Alive
    /\ pc[p] = "schedGetHandler"
    /\ LET id == local[p].id
           c == callLog[id]
           r == GetHandler(c.Handler)
           looked == [callLog EXCEPT ![id].lookups = @ + 1,
                                     ![id].resolved = r.handler]
       IN  IF r.err # ErrNil
           THEN /\ callLog' = [looked EXCEPT ![id].err = ErrHandlerNotFound]
                /\ pc' = [pc EXCEPT ![p] = "idle"]
                /\ local' = [local EXCEPT ![p] = NoCall]
           ELSE /\ local' = [local EXCEPT ![p] =
                               [id |-> id, Timestamp |-> c.Timestamp,
                                Duration |-> c.Duration, handler |-> r.handler,
                                Handler |-> c.Handler, Payload |-> id]]
                /\ pc' = [pc EXCEPT ![p] = "schedSend"]
                /\ callLog' = looked
    /\ UNCHANGED <<clock, storage, eventChan, stopChan, isCatchingUp, isPaused,
                   runPc, paused, currentTime, timestamps, toggles, fired,
                   execs, tickStart, overdue, stopInfo>>
    /\ UNCHANGED <<registry, elsewhere>>

\* ScheduleEvent, the registry lookup, with its el.logError
SchedGetHandler(p) ==
    /\ SchedGetHandlerSched(p)
    /\ IF pc'[p] = "idle"
       THEN logError("event scheduling failed - handler not found")
       ELSE NoLog

\* a send that gives the event up when the channel is full
SchedSendDropping(p, cap) ==
    /\ Alive
    /\ pc[p] = "schedSend"
    /\ eventChan' = IF Len(eventChan) < cap
                    THEN Append(eventChan, local[p])
                    ELSE eventChan
    /\ callLog' = SetErr(local[p].id, ErrNil)
    /\ pc' = [pc EXCEPT ![p] = "idle"]
    /\ local' = [local EXCEPT ![p] = NoCall]
    /\ UNCHANGED <<clock, storage, stopChan, isCatchingUp, isPaused, runPc,
                   paused, currentTime, timestamps, toggles, fired, execs,
                   tickStart, overdue, stopInfo>>
    /\ UNCHANGED <<registry, elsewhere>>

\* ScheduleEvent: el.eventChan <- event; return nil, on a channel of the
\* given capacity: the send waits while the channel is full
SchedSendCap(p, cap) ==
    /\ Alive
    /\ pc[p] = "schedSend"
    /\ Len(eventChan) < cap
    /\ eventChan' = Append(eventChan, local[p])
    /\ callLog' = SetErr(local[p].id, ErrNil)
    /\ pc' = [pc EXCEPT ![p] = "idle"]
    /\ local' = [local EXCEPT ![p] = NoCall]
    /\ UNCHANGED <<clock, storage, stopChan, isCatchingUp, isPaused, runPc,
                   paused, currentTime, timestamps, toggles, fired, execs,
                   tickStart, overdue, stopInfo>>
    /\ UNCHANGED <<registry, elsewhere>>

\* ScheduleEvent: the send on el.eventChan
SchedSendSched(p) == SchedSendCap(p, EventChanCap)

\* the send with its el.logInfo, on a channel scaled down to SmallCap
SchedSendSmall(p) ==
    /\ SchedSendCap(p, SmallCap)
    /\ logInfo("event scheduled")

\* ScheduleEvent, the send, with its el.logInfo
SchedSend(p) ==
    /\ SchedSendSched(p)
    /\ logInfo("event scheduled")

\* a Pause that pauses and signals whatever isPaused is
PauseAlways(p) ==
    /\ Alive /\ InUse
    /\ pc[p] = "idle"
    /\ toggles' = toggles + 1
    /\ isCatchingUp' = TRUE
    /\ isPaused' = TRUE
    /\ pc' = [pc EXCEPT ![p] = "pauseSend"]
    /\ UNCHANGED <<clock, storage, eventChan, stopChan, runPc, paused,
                   currentTime, timestamps, local, callLog, fired, execs,
                   tickStart, overdue, stopInfo>>
    /\ UNCHANGED <<registry, elsewhere>>

\* Pause: the critical section under pauseMu; the send on pauseChan follows
PauseSched(p) ==
    /\ Alive /\ InUse
    /\ pc[p] = "idle"
    /\ toggles' = toggles + 1
    /\ IF ~isPaused
       THEN /\ isCatchingUp' = TRUE
            /\ isPaused' = TRUE
            /\ pc' = [pc EXCEPT ![p] = "pauseSend"]
       ELSE UNCHANGED <<isCatchingUp, isPaused, pc>>
    /\ UNCHANGED <<clock, storage, eventChan, stopChan, runPc, paused,
                   currentTime, timestamps, local, callLog, fired, execs,
                   tickStart, overdue, stopInfo>>
    /\ UNCHANGED <<registry, elsewhere>>

\* Pause with its el.logInfo
Pause(p) ==
    /\ PauseSched(p)
    /\ IF isPaused' # isPaused
       THEN logInfo("event loop paused")
       ELSE NoLog

\* Unpause: the critical section under pauseMu; the send on pauseChan follows
UnpauseSched(p) ==
    /\ Alive /\ InUse
    /\ pc[p] = "idle"
    /\ toggles' = toggles + 1
    /\ IF isPaused
       THEN /\ isPaused' = FALSE
            /\ pc' = [pc EXCEPT ![p] = "unpauseSend"]
       ELSE UNCHANGED <<isPaused, pc>>
    /\ UNCHANGED <<clock, storage, eventChan, stopChan, isCatchingUp, runPc,
                   paused, currentTime, timestamps, local, callLog, fired,
                   execs, tickStart, overdue, stopInfo>>
    /\ UNCHANGED <<registry, elsewhere>>

\* Unpause with its el.logInfo
Unpause(p) ==
    /\ UnpauseSched(p)
    /\ IF isPaused' # isPaused
       THEN logInfo("event loop unpaused")
       ELSE NoLog

\* ------------------------------------------------------------ coordinator
\* a processTimestamp that asks the registry for the callable when it fires
processTimestampResolving(timestamp) ==
    LET r == getAndRemove(storage, timestamp)
        launches == [i \in 1..Len(r.events) |->
                        [id |-> r.events[i].id, fireAt |-> timestamp,
                         handler |-> GetHandler(r.events[i].Handler).handler,
                         Payload |-> r.events[i].Payload]]
    IN  /\ storage' = r.storage
        /\ fired' = fired \o launches
        /\ execs' = execs @@ [id \in {r.events[i].id : i \in 1..Len(r.events)}
                                 |-> "running"]

\* a processTimestamp that launches the first event of the bucket only
processTimestampFirstOnly(timestamp) ==
    LET r == getAndRemove(storage, timestamp)
        launches == [i \in 1..(IF Len(r.events) > 0 THEN 1 ELSE 0) |->
                        [id |-> r.events[i].id, fireAt |-> timestamp,
                         handler |-> r.events[i].handler,
                         Payload |-> r.events[i].Payload]]
    IN  /\ storage' = r.storage
        /\ fired' = fired \o launches
        /\ execs' = execs @@ [id \in {launches[i].id : i \in 1..Len(launches)}
                                 |-> "running"]

\* processTimestamp: pop the bucket, one `go el.executeHandler` per event
processTimestamp(timestamp) ==
    LET r == getAndRemove(storage, timestamp)
        launches == [i \in 1..Len(r.events) |->
                        [id |-> r.events[i].id, fireAt |-> timestamp,
                         handler |-> r.events[i].handler,
                         Payload |-> r.events[i].Payload]]
    IN  /\ storage' = r.storage
        /\ fired' = fired \o launches
        /\ execs' = execs @@ [id \in {r.events[i].id : i \in 1..Len(r.events)}
                                 |-> "running"]

\* run: case <-el.stopChan: return
RunStop ==
    /\ Alive
    /\ runPc = "select"
    /\ stopChan = "closed"
    /\ runPc' = "exited"
    /\ UNCHANGED <<clock, storage, eventChan, stopChan, isCatchingUp, isPaused,
                   paused, currentTime, timestamps, pc, local, callLog,
                   toggles, fired, execs, tickStart, overdue, stopInfo>>
    /\ UNCHANGED <<registry, elsewhere>>
    /\ NoLog

\* a run that stops receiving from pauseChan once it is paused
RunPauseDeaf(p) ==
    /\ Alive
    /\ runPc = "select"
    /\ ~paused
    /\ pc[p] \in {"pauseSend", "unpauseSend"}
    /\ paused' = (pc[p] = "pauseSend")
    /\ pc' = [pc EXCEPT ![p] = "idle"]
    /\ UNCHANGED <<clock, storage, eventChan, stopChan, isCatchingUp, isPaused,
                   runPc, currentTime, timestamps, local, callLog, toggles,
                   fired, execs, tickStart, overdue, stopInfo>>
    /\ UNCHANGED <<registry, elsewhere>>
    /\ NoLog

\* run: case pauseState := <-el.pauseChan (rendezvous with Pause or Unpause)
RunPause(p) ==
    /\ Alive
    /\ runPc = "select"
    /\ pc[p] \in {"pauseSend", "unpauseSend"}
    /\ paused' = (pc[p] = "pauseSend")
    /\ pc' = [pc EXCEPT ![p] = "idle"]
    /\ UNCHANGED <<clock, storage, eventChan, stopChan, isCatchingUp, isPaused,
                   runPc, currentTime, timestamps, local, callLog, toggles,
                   fired, execs, tickStart, overdue, stopInfo>>
    /\ UNCHANGED <<registry, elsewhere>>
    /\ NoLog

\* a coordinator that also takes submissions while it replays overdue buckets
RunEventMidTick ==
    /\ Alive
    /\ runPc \in {"select", "catchUp"}
    /\ eventChan # << >>
    /\ storage' = add(storage, Head(eventChan))
    /\ eventChan' = Tail(eventChan)
    /\ UNCHANGED <<clock, stopChan, isCatchingUp, isPaused, runPc, paused,
                   currentTime, timestamps, pc, local, callLog, toggles,
                   fired, execs, tickStart, overdue, stopInfo>>
    /\ UNCHANGED <<registry, elsewhere>>
    /\ NoLog

\* run: case event := <-el.eventChan: el.storage.add(event)
RunEvent ==
    /\ Alive
    /\ runPc = "select"
    /\ eventChan # << >>
    /\ storage' = add(storage, Head(eventChan))
    /\ eventChan' = Tail(eventChan)
    /\ UNCHANGED <<clock, stopChan, isCatchingUp, isPaused, runPc, paused,
                   currentTime, timestamps, pc, local, callLog, toggles,
                   fired, execs, tickStart, overdue, stopInfo>>
    /\ UNCHANGED <<registry, elsewhere>>
    /\ NoLog

\* run: case <-ticker.C while paused: the tick is dropped
RunTickPaused ==
    /\ Alive
    /\ runPc = "select"
    /\ paused
    /\ UNCHANGED vars

\* run: case <-ticker.C, processTick up to the call of processCatchUp:
\* sample the time, hasPastEvents, setCatchingUp(true), getTimestampsUpTo
RunTickSched ==
    /\ Alive
    /\ runPc = "select"
    /\ ~paused
    /\ currentTime' = clock
    /\ tickStart' = Len(fired)
    /\ overdue' = {e.id : e \in {x \in StoredEvents : FireAt(x) < clock}}
    /\ IF hasPastEvents(storage, clock)
       THEN /\ isCatchingUp' = TRUE
            /\ timestamps' = getTimestampsUpTo(storage, clock - 1)
            /\ runPc' = "catchUp"
       ELSE /\ runPc' = "current"
            /\ UNCHANGED <<isCatchingUp, timestamps>>
    /\ UNCHANGED <<clock, storage, eventChan, stopChan, isPaused, paused, pc,
                   local, callLog, toggles, fired, execs, stopInfo>>
    /\ UNCHANGED <<registry, elsewhere>>

\* the tick with the el.logInfo of processCatchUp
RunTick ==
    /\ RunTickSched
    /\ IF runPc' = "catchUp"
       THEN logInfo("entering catch-up mode")
       ELSE NoLog

\* processCatchUp with a look at stopChan before every bucket
CatchUpStepStopAware ==
    /\ Alive
    /\ runPc = "catchUp"
    /\ timestamps # << >>
    /\ IF stopChan = "closed"
       THEN /\ timestamps' = << >>
            /\ UNCHANGED <<storage, fired, execs>>
       ELSE /\ processTimestamp(Head(timestamps))
            /\ timestamps' = Tail(timestamps)
    /\ UNCHANGED <<clock, eventChan, stopChan, isCatchingUp, isPaused, runPc,
                   paused, currentTime, pc, local, callLog, toggles,
                   tickStart, overdue, stopInfo>>
    /\ UNCHANGED <<registry, elsewhere>>

\* processCatchUp: one iteration of `for _, ts := range timestamps`
CatchUpStepSched ==
    /\ Alive
    /\ runPc = "catchUp"
    /\ timestamps # << >>
    /\ processTimestamp(Head(timestamps))
    /\ timestamps' = Tail(timestamps)
    /\ UNCHANGED <<clock, eventChan, stopChan, isCatchingUp, isPaused, runPc,
                   paused, currentTime, pc, local, callLog, toggles,
                   tickStart, overdue, stopInfo>>
    /\ UNCHANGED <<registry, elsewhere>>

\* one replayed bucket with the el.logInfo of processTimestamp
CatchUpStep ==
    /\ CatchUpStepSched
    /\ processTimestampLog(Head(timestamps))

\* processTick without the el.setCatchingUp(false) after the replay
CatchUpDoneFlagLeft ==
    /\ Alive
    /\ runPc = "catchUp"
    /\ timestamps = << >>
    /\ runPc' = "current"
    /\ UNCHANGED <<clock, storage, eventChan, stopChan, isCatchingUp, isPaused,
                   paused, currentTime, timestamps, pc, local, callLog,
                   toggles, fired, execs, tickStart, overdue, stopInfo>>
    /\ UNCHANGED <<registry, elsewhere>>

\* processTick: el.setCatchingUp(false) after processCatchUp returned
CatchUpDoneSched ==
    /\ Alive
    /\ runPc = "catchUp"
    /\ timestamps = << >>
    /\ isCatchingUp' = FALSE
    /\ runPc' = "current"
    /\ UNCHANGED <<clock, storage, eventChan, stopChan, isPaused, paused,
                   currentTime, timestamps, pc, local, callLog, toggles,
                   fired, execs, tickStart, overdue, stopInfo>>
    /\ UNCHANGED <<registry, elsewhere>>

\* the end of the replay with the el.logInfo of processCatchUp
CatchUpDone ==
    /\ CatchUpDoneSched
    /\ logInfo("exiting catch-up mode")

\* processTick without its last statement: the bucket for now is left alone
ProcessCurrentSkipping ==
    /\ Alive
    /\ runPc = "current"
    /\ runPc' = "select"
    /\ overdue' = {}
    /\ UNCHANGED <<clock, storage, eventChan, stopChan, isCatchingUp, isPaused,
                   paused, currentTime, timestamps, pc, local, callLog,
                   toggles, fired, execs, tickStart, stopInfo>>
    /\ UNCHANGED <<registry, elsewhere>>

\* a processTick that waits for the executions launched so far to return
\* before it fires the bucket for now
ProcessCurrentJoining ==
    /\ Alive
    /\ runPc = "current"
    /\ \A id \in DOMAIN execs : execs[id] # "running"
    /\ processTimestamp(currentTime)
    /\ runPc' = "select"
    /\ overdue' = {}
    /\ UNCHANGED <<clock, eventChan, stopChan, isCatchingUp, isPaused, paused,
                   currentTime, timestamps, pc, local, callLog, toggles,
                   tickStart, stopInfo>>
    /\ UNCHANGED <<registry, elsewhere>>

\* processTick: el.processTimestamp(currentTime), back to the select
ProcessCurrentSched ==
    /\ Alive
    /\ runPc = "current"
    /\ processTimestamp(currentTime)
    /\ runPc' = "select"
    /\ overdue' = {}
    /\ UNCHANGED <<clock, eventChan, stopChan, isCatchingUp, isPaused, paused,
                   currentTime, timestamps, pc, local, callLog, toggles,
                   tickStart, stopInfo>>
    /\ UNCHANGED <<registry, elsewhere>>

\* the current bucket with the el.logInfo of processTimestamp
ProcessCurrent ==
    /\ ProcessCurrentSched
    /\ processTimestampLog(currentTime)

\* ------------------------------------------------------ handler goroutines
\* executeHandler without the deferred recover
executeHandlerNoRecover(fn) == IF Panics(fn) THEN "crashed" ELSE "returned"

\* executeHandler: handler(payload) under the deferred recover
executeHandler(fn) == IF Panics(fn) THEN "recovered" ELSE "returned"

LaunchOf(id) == fired[CHOOSE i \in 1..Len(fired) : fired[i].id = id]

HandlerDoneSched(id) ==
    /\ Alive
    /\ id \in DOMAIN execs
    /\ execs[id] = "running"
    /\ execs' = [execs EXCEPT ![id] = executeHandler(LaunchOf(id).handler)]
    /\ UNCHANGED <<clock, storage, eventChan, stopChan, isCatchingUp, isPaused,
                   runPc, paused, currentTime, timestamps, pc, local, callLog,
                   toggles, fired, tickStart, overdue, stopInfo>>
    /\ UNCHANGED <<registry, elsewhere>>

\* executeHandler with the el.logError of its recover
HandlerDone(id) ==
    /\ HandlerDoneSched(id)
    /\ IF execs'[id] = "recovered"
       THEN logError("handler panicked")
       ELSE NoLog

\* ------------------------------------------------------------------ clock
Tock ==
    /\ clock < MaxTime
    /\ clock' = clock + 1
    /\ UNCHANGED <<storage, eventChan, stopChan, isCatchingUp, isPaused, runPc,
                   paused, currentTime, timestamps, pc, local, callLog,
                   toggles, fired, execs, tickStart, overdue, stopInfo>>
    /\ UNCHANGED <<registry, elsewhere>>
    /\ NoLog

\* ------------------------------------------- the store called concurrently
\* Each goroutine calls one method at a time.  A method takes the mutex in
\* its first step and gives it back in the step that returns; the statements
\* in between are steps of their own.

StIdle(g) == stCall[g].pc = "idle" /\ stCalls < StoreOps

\* sync.RWMutex
Lock(g) ==
    /\ mu.w = "none"
    /\ mu.r = {}
    /\ mu' = [mu EXCEPT !.w = g]
RLock(g) ==
    /\ mu.w = "none"
    /\ mu' = [mu EXCEPT !.r = @ \cup {g}]
Unlock(g) == mu' = [mu EXCEPT !.w = "none"]
RUnlock(g) == mu' = [mu EXCEPT !.r = @ \ {g}]

StEnter(g, frame) ==
    /\ stCall' = [stCall EXCEPT ![g] = frame]
    /\ stCalls' = stCalls + 1
StLeave(g) == stCall' = [stCall EXCEPT ![g] = NoStCall]

\* add: es.mu.Lock()
StAdd(g, event) ==
    /\ StIdle(g)
    /\ Lock(g)
    /\ StEnter(g, [op |-> "add", pc |-> "append", event |-> event])
    /\ UNCHANGED <<events, inserted>>
    /\ UNCHANGED <<schedVars, logVars, emVars, rfwVars>>

\* add: the append to the bucket, the deferred Unlock and the return; the
\* stored event carries the rank of its insertion
StAddAppend(g) ==
    /\ stCall[g].pc = "append"
    /\ inserted' = inserted + 1
    /\ events' = add(events, [Timestamp |-> stCall[g].event.Timestamp,
                              Duration |-> stCall[g].event.Duration,
                              n |-> inserted + 1])
    /\ Unlock(g)
    /\ StLeave(g)
    /\ UNCHANGED stCalls
    /\ UNCHANGED <<schedVars, logVars, emVars, rfwVars>>

\* getAndRemove without es.mu.Lock()
StGetAndRemoveUnlocked(g, timestamp) ==
    /\ StIdle(g)
    /\ StEnter(g, [op |-> "getAndRemove", pc |-> "read",
                   timestamp |-> timestamp])
    /\ UNCHANGED <<events, mu, inserted>>
    /\ UNCHANGED <<schedVars, logVars, emVars, rfwVars>>

\* getAndRemove: es.mu.Lock()
StGetAndRemove(g, timestamp) ==
    /\ StIdle(g)
    /\ Lock(g)
    /\ StEnter(g, [op |-> "getAndRemove", pc |-> "read",
                   timestamp |-> timestamp])
    /\ UNCHANGED <<events, inserted>>
    /\ UNCHANGED <<schedVars, logVars, emVars, rfwVars>>

\* getAndRemove: events := es.events[timestamp]
StGetAndRemoveRead(g) ==
    /\ stCall[g].pc = "read"
    /\ stCall' = [stCall EXCEPT ![g] =
                     [op |-> "getAndRemove", pc |-> "delete",
                      timestamp |-> stCall[g].timestamp,
                      events |-> getAndRemove(events,
                                              stCall[g].timestamp).events]]
    /\ UNCHANGED <<events, mu, stCalls, inserted>>
    /\ UNCHANGED <<schedVars, logVars, emVars, rfwVars>>

\* getAndRemove: delete(es.events, timestamp), the deferred Unlock and the
\* return of the events read
StGetAndRemoveDelete(g) ==
    /\ stCall[g].pc = "delete"
    /\ events' = getAndRemove(events, stCall[g].timestamp).storage
    /\ Unlock(g)
    /\ StLeave(g)
    /\ UNCHANGED <<stCalls, inserted>>
    /\ UNCHANGED <<schedVars, logVars, emVars, rfwVars>>

\* getTimestampsUpTo: es.mu.RLock()
StGetTimestampsUpTo(g, currentTime_) ==
    /\ StIdle(g)
    /\ RLock(g)
    /\ StEnter(g, [op |-> "getTimestampsUpTo", pc |-> "range",
                   currentTime |-> currentTime_])
    /\ UNCHANGED <<events, inserted>>
    /\ UNCHANGED <<schedVars, logVars, emVars, rfwVars>>

\* the sequences that list every element of S once: the orders in which
\* `range es.events` may yield the keys
RECURSIVE Orders(_)
Orders(S) ==
    IF S = {} THEN {<< >>}
    ELSE UNION {{<<k>> \o o : o \in Orders(S \ {k})} : k \in S}

\* getTimestampsUpTo: the loop over the map that collects the keys up to
\* currentTime, in the order the map yields them
StRange(g) ==
    /\ stCall[g].pc = "range"
    /\ \E order \in Orders({ts \in DOMAIN events :
                               ts <= stCall[g].currentTime}) :
          stCall' = [stCall EXCEPT ![g] =
                        [op |-> "getTimestampsUpTo", pc |-> "sort",
                         currentTime |-> stCall[g].currentTime,
                         timestamps |-> order]]
    /\ UNCHANGED <<events, mu, stCalls, inserted>>
    /\ UNCHANGED <<schedVars, logVars, emVars, rfwVars>>

\* getTimestampsUpTo: the nested loops that sort the collected keys; the
\* frame keeps the order the map yielded them in
StSort(g) ==
    /\ stCall[g].pc = "sort"
    /\ stCall' = [stCall EXCEPT ![g] =
                     [op |-> "getTimestampsUpTo", pc |-> "return",
                      currentTime |-> stCall[g].currentTime,
                      ranged |-> stCall[g].timestamps,
                      timestamps |-> SortOuter(stCall[g].timestamps, 1)]]
    /\ UNCHANGED <<events, mu, stCalls, inserted>>
    /\ UNCHANGED <<schedVars, logVars, emVars, rfwVars>>

\* getTimestampsUpTo: the deferred RUnlock and the return of timestamps
StSortReturn(g) ==
    /\ stCall[g].pc = "return"
    /\ stCall[g].op = "getTimestampsUpTo"
    /\ RUnlock(g)
    /\ StLeave(g)
    /\ UNCHANGED <<events, stCalls, inserted>>
    /\ UNCHANGED <<schedVars, logVars, emVars, rfwVars>>

\* hasPastEvents: es.mu.RLock()
StHasPastEvents(g, currentTime_) ==
    /\ StIdle(g)
    /\ RLock(g)
    /\ StEnter(g, [op |-> "hasPastEvents", pc |-> "scan",
                   currentTime |-> currentTime_])
    /\ UNCHANGED <<events, inserted>>
    /\ UNCHANGED <<schedVars, logVars, emVars, rfwVars>>

\* hasPastEvents: the loop over the map
StScan(g) ==
    /\ stCall[g].pc = "scan"
    /\ stCall' = [stCall EXCEPT ![g] =
                     [op |-> "hasPastEvents", pc |-> "return",
                      currentTime |-> stCall[g].currentTime,
                      result |-> hasPastEvents(events,
                                               stCall[g].currentTime)]]
    /\ UNCHANGED <<events, mu, stCalls, inserted>>
    /\ UNCHANGED <<schedVars, logVars, emVars, rfwVars>>

\* hasPastEvents: the deferred RUnlock and the return
StScanReturn(g) ==
    /\ stCall[g].pc = "return"
    /\ stCall[g].op = "hasPastEvents"
    /\ RUnlock(g)
    /\ StLeave(g)
    /\ UNCHANGED <<events, stCalls, inserted>>
    /\ UNCHANGED <<schedVars, logVars, emVars, rfwVars>>

\* ------------------------------------------------------ the EventManager
\* One client goroutine makes the calls RegisterListener, DispatchEvent,
\* DispatchPriorityEvent and Stop one after the other; a second goroutine
\* calls Run.  A panic ends the call it is raised in; log.Fatalf ends the
\* process.

EmAlive == emRun.pc # "fatal"
EmIdle == EmAlive /\ emCall.pc = "idle" /\ Len(emLog) < EmCalls
EmReturn(result) ==
    /\ emLog' = Append(emLog, [op |-> emCall.op, result |-> result])
    /\ emCall' = NoEmCall

\* genericListeners[t], nil when the type has no entry
ListenersOf(t) ==
    IF t \in DOMAIN genericListeners THEN genericListeners[t] ELSE << >>

\* RegisterListener without the test of dispatcher.running
RegisterListenerUnchecked(listener) ==
    /\ EmIdle
    /\ emCall' = [op |-> "RegisterListener", pc |-> "append",
                  listener |-> listener]
    /\ UNCHANGED <<running, eventsPrioQueue, eventsQueue, genericListeners,
                   emRun, handled, emLog>>
    /\ UNCHANGED <<schedVars, logVars, storeVars, rfwVars>>

\* RegisterListener: if dispatcher.running { panic(...) }
RegisterListener(listener) ==
    /\ EmIdle
    /\ IF running
       THEN /\ emLog' = Append(emLog, [op |-> "RegisterListener",
                                       result |-> "panic"])
            /\ UNCHANGED emCall
       ELSE /\ emCall' = [op |-> "RegisterListener", pc |-> "append",
                          listener |-> listener]
            /\ UNCHANGED emLog
    /\ UNCHANGED <<running, eventsPrioQueue, eventsQueue, genericListeners,
                   emRun, handled>>
    /\ UNCHANGED <<schedVars, logVars, storeVars, rfwVars>>

\* RegisterListener: the entry for listener.Type() is created if absent and
\* the listener is appended to it
RegisterListenerAppend ==
    /\ EmAlive
    /\ emCall.pc = "append"
    /\ LET t == Type(emCall.listener)
       IN  genericListeners' =
              [k \in DOMAIN genericListeners \cup {t} |->
                   IF k = t THEN Append(ListenersOf(t), emCall.listener)
                   ELSE genericListeners[k]]
    /\ EmReturn("ok")
    /\ UNCHANGED <<running, eventsPrioQueue, eventsQueue, emRun, handled>>
    /\ UNCHANGED <<schedVars, logVars, storeVars, rfwVars>>

\* DispatchEvent / DispatchPriorityEvent: the genericHandler is built from
\* the event and the listeners its type has at this moment
Dispatch(op, eventType) ==
    /\ EmIdle
    /\ emCall' = [op |-> op, pc |-> "send",
                  handler |-> [event |-> [eventType |-> eventType,
                                          id |-> Len(emLog) + 1],
                               eventListeners |-> ListenersOf(eventType)]]
    /\ UNCHANGED <<running, eventsPrioQueue, eventsQueue, genericListeners,
                   emRun, handled, emLog>>
    /\ UNCHANGED <<schedVars, logVars, storeVars, rfwVars>>

DispatchEvent(eventType) == Dispatch("DispatchEvent", eventType)
DispatchPriorityEvent(eventType) == Dispatch("DispatchPriorityEvent", eventType)

\* a send on a channel: panics when the channel is closed, waits while the
\* buffer is full
CanSend(ch) == ch.closed \/ Len(ch.buf) < QueueSize
Sent(ch, handler) ==
    IF ch.closed THEN ch ELSE [ch EXCEPT !.buf = Append(@, handler)]

\* DispatchEvent: dispatcher.eventsQueue <- handler
DispatchEventSend ==
    /\ EmAlive
    /\ emCall.pc = "send"
    /\ emCall.op = "DispatchEvent"
    /\ CanSend(eventsQueue)
    /\ eventsQueue' = Sent(eventsQueue, emCall.handler)
    /\ EmReturn(IF eventsQueue.closed THEN "panic" ELSE "ok")
    /\ UNCHANGED <<running, eventsPrioQueue, genericListeners, emRun, handled>>
    /\ UNCHANGED <<schedVars, logVars, storeVars, rfwVars>>

\* DispatchPriorityEvent: dispatcher.eventsPrioQueue <- handler
DispatchPriorityEventSend ==
    /\ EmAlive
    /\ emCall.pc = "send"
    /\ emCall.op = "DispatchPriorityEvent"
    /\ CanSend(eventsPrioQueue)
    /\ eventsPrioQueue' = Sent(eventsPrioQueue, emCall.handler)
    /\ EmReturn(IF eventsPrioQueue.closed THEN "panic" ELSE "ok")
    /\ UNCHANGED <<running, eventsQueue, genericListeners, emRun, handled>>
    /\ UNCHANGED <<schedVars, logVars, storeVars, rfwVars>>

\* EventManager.Stop: if !dispatcher.running { return }
EmStop ==
    /\ EmIdle
    /\ IF running
       THEN /\ emCall' = [op |-> "Stop", pc |-> "closePrio"]
            /\ UNCHANGED emLog
       ELSE /\ emLog' = Append(emLog, [op |-> "Stop", result |-> "ok"])
            /\ UNCHANGED emCall
    /\ UNCHANGED <<running, eventsPrioQueue, eventsQueue, genericListeners,
                   emRun, handled>>
    /\ UNCHANGED <<schedVars, logVars, storeVars, rfwVars>>

\* EventManager.Stop: close(dispatcher.eventsPrioQueue); closing a closed
\* channel panics
EmStopClosePrio ==
    /\ EmAlive
    /\ emCall.pc = "closePrio"
    /\ IF eventsPrioQueue.closed
       THEN /\ EmReturn("panic")
            /\ UNCHANGED eventsPrioQueue
       ELSE /\ eventsPrioQueue' = [eventsPrioQueue EXCEPT !.closed = TRUE]
            /\ emCall' = [emCall EXCEPT !.pc = "closeQueue"]
            /\ UNCHANGED emLog
    /\ UNCHANGED <<running, eventsQueue, genericListeners, emRun, handled>>
    /\ UNCHANGED <<schedVars, logVars, storeVars, rfwVars>>

\* EventManager.Stop: close(dispatcher.eventsQueue), on the channel the field
\* holds at this moment, then the sleep and the return
EmStopCloseQueue ==
    /\ EmAlive
    /\ emCall.pc = "closeQueue"
    /\ IF eventsQueue.closed
       THEN UNCHANGED eventsQueue
       ELSE eventsQueue' = [eventsQueue EXCEPT !.closed = TRUE]
    /\ EmReturn(IF eventsQueue.closed THEN "panic" ELSE "ok")
    /\ UNCHANGED <<running, eventsPrioQueue, genericListeners, emRun, handled>>
    /\ UNCHANGED <<schedVars, logVars, storeVars, rfwVars>>

\* EventManager.Run: the test of dispatcher.running, then running = true
EmRunCall ==
    /\ emRun.pc = "idle"
    /\ emRun.calls < EmRuns
    /\ IF running
       THEN /\ emRun' = [emRun EXCEPT !.pc = "fatal"]
            /\ UNCHANGED running
       ELSE /\ emRun' = [pc |-> "select", calls |-> emRun.calls + 1]
            /\ running' = TRUE
    /\ UNCHANGED <<eventsPrioQueue, eventsQueue, genericListeners, emCall,
                   handled, emLog>>
    /\ UNCHANGED <<schedVars, logVars, storeVars, rfwVars>>

\* a receive is ready when the buffer holds a value or the channel is closed
CanReceive(ch) == ch.buf # << >> \/ ch.closed

\* genericHandler.handle: every listener of the handler gets the event; the
\* record keeps whether the queue was already closed at the receive
Handle(queue, ch) ==
    handled' = Append(handled, [event |-> Head(ch.buf).event,
                                eventListeners |-> Head(ch.buf).eventListeners,
                                queue |-> queue,
                                closed |-> ch.closed])

\* Run: case handler, ok := <-dispatcher.eventsPrioQueue
EmRunPrio ==
    /\ emRun.pc = "select"
    /\ CanReceive(eventsPrioQueue)
    /\ IF eventsPrioQueue.buf # << >>
       THEN /\ Handle("eventsPrioQueue", eventsPrioQueue)
            /\ eventsPrioQueue' = [eventsPrioQueue EXCEPT !.buf = Tail(@)]
            /\ UNCHANGED emRun
       ELSE /\ emRun' = [emRun EXCEPT !.pc = "deferPrio"]
            /\ UNCHANGED <<eventsPrioQueue, handled>>
    /\ UNCHANGED <<running, eventsQueue, genericListeners, emCall, emLog>>
    /\ UNCHANGED <<schedVars, logVars, storeVars, rfwVars>>

\* Run: case handler, ok := <-dispatcher.eventsQueue
EmRunQueue ==
    /\ emRun.pc = "select"
    /\ CanReceive(eventsQueue)
    /\ IF eventsQueue.buf # << >>
       THEN /\ Handle("eventsQueue", eventsQueue)
            /\ eventsQueue' = [eventsQueue EXCEPT !.buf = Tail(@)]
       ELSE UNCHANGED <<eventsQueue, handled>>
    /\ UNCHANGED <<running, eventsPrioQueue, genericListeners, emRun, emCall,
                   emLog>>
    /\ UNCHANGED <<schedVars, logVars, storeVars, rfwVars>>

\* Run: default: time.Sleep(idleDispatcherSleepTime)
EmRunDefault ==
    /\ emRun.pc = "select"
    /\ ~CanReceive(eventsPrioQueue)
    /\ ~CanReceive(eventsQueue)
    /\ UNCHANGED vars

\* Run's deferred function, first statement
EmRunDeferPrio ==
    /\ emRun.pc = "deferPrio"
    /\ eventsPrioQueue' = MakeChan
    /\ emRun' = [emRun EXCEPT !.pc = "deferQueue"]
    /\ UNCHANGED <<running, eventsQueue, genericListeners, emCall, handled,
                   emLog>>
    /\ UNCHANGED <<schedVars, logVars, storeVars, rfwVars>>

\* Run's deferred function, second statement
EmRunDeferQueue ==
    /\ emRun.pc = "deferQueue"
    /\ eventsQueue' = MakeChan
    /\ emRun' = [emRun EXCEPT !.pc = "deferRunning"]
    /\ UNCHANGED <<running, eventsPrioQueue, genericListeners, emCall, handled,
                   emLog>>
    /\ UNCHANGED <<schedVars, logVars, storeVars, rfwVars>>

\* Run's deferred function, last statement, and the return
EmRunReturn ==
    /\ emRun.pc = "deferRunning"
    /\ running' = FALSE
    /\ emRun' = [emRun EXCEPT !.pc = "idle"]
    /\ UNCHANGED <<eventsPrioQueue, eventsQueue, genericListeners, emCall,
                   handled, emLog>>
    /\ UNCHANGED <<schedVars, logVars, storeVars, rfwVars>>

\* ------------------------------------------------------ RotatingFileWriter
\* The writer, its file and the backups next to it.  The file system does
\* not fail: os.OpenFile, Stat, Rename, Remove, Close and File.Write return
\* no error, and nothing else touches the directory.
\* info.Size(): the bytes a file holds
RECURSIVE Size(_)
Size(data) == IF data = << >> THEN 0 ELSE Head(data) + Size(Tail(data))

\* the files that can be at filepath before the writer is built: none, or
\* one no larger than maxBytes
ExistingFiles ==
    {NoFile, EmptyFile} \cup {[exists |-> TRUE, data |-> <<n>>] : n \in 1..MaxBytes}

\* os.OpenFile(filepath, O_CREATE|O_WRONLY|O_APPEND): the file is created
\* when there is none
openFile(d) == IF d[0].exists THEN d ELSE [d EXCEPT ![0] = EmptyFile]

\* rotate, the loop `for i := maxBackups - 1; i >= 1; i--`: filepath.i is
\* renamed to filepath.(i+1), whose old file is removed
RECURSIVE RotateBackups(_, _)
RotateBackups(d, i) ==
    IF i < 1
    THEN d
    ELSE RotateBackups(IF d[i].exists
                       THEN [d EXCEPT ![i + 1] = d[i], ![i] = NoFile]
                       ELSE d,
                       i - 1)

\* rotate: shift the backups, rename the current file to filepath.1, open a
\* new file
rotate(d) ==
    LET shifted == RotateBackups(d, maxBackups - 1)
        renamed == IF shifted[0].exists
                   THEN [shifted EXCEPT ![1] = shifted[0], ![0] = NoFile]
                   ELSE shifted
    IN  openFile(renamed)

\* a Write that rotates only once the file is over the limit
needsRotateLate(size, n) == size > MaxBytes

\* Write: if rfw.currentSize+int64(len(p)) > rfw.maxBytes
needsRotate(size, n) == size + n > MaxBytes

\* NewRotatingFileWriter(filepath, MaxBytes) with openFile: the file is
\* opened or created and currentSize is its size
NewRotatingFileWriter(existing) ==
    /\ currentFile = "nil"
    /\ writeLog = << >>
    /\ disk' = openFile([disk EXCEPT ![0] = existing])
    /\ currentFile' = "open"
    /\ currentSize' = Size(disk'[0].data)
    /\ UNCHANGED <<rfwMu, rfwCall, writeLog>>
    /\ UNCHANGED <<schedVars, logVars, emVars, storeVars>>

\* Write: rfw.mu.Lock(), the size check and rotate()
RfwWrite(g, p) ==
    /\ currentFile = "open"
    /\ rfwCall[g].pc = "idle"
    /\ Len(writeLog) < WriteCalls
    /\ rfwMu = "none"
    /\ rfwMu' = g
    /\ LET rotates == needsRotate(currentSize, p)
       IN  /\ disk' = IF rotates THEN rotate(disk) ELSE disk
           /\ currentSize' = IF rotates THEN Size(disk'[0].data)
                                         ELSE currentSize
           /\ writeLog' = Append(writeLog,
                                  [g |-> g, p |-> p, n |-> 0, err |-> Pending,
                                   rotated |-> rotates])
    /\ rfwCall' = [rfwCall EXCEPT ![g] =
                       [pc |-> "write", id |-> Len(writeLog) + 1, p |-> p]]
    /\ UNCHANGED currentFile
    /\ UNCHANGED <<schedVars, logVars, emVars, storeVars>>

\* Write: n, err = rfw.currentFile.Write(p); rfw.currentSize += int64(n);
\* return n, nil, and the deferred rfw.mu.Unlock()
RfwWriteFile(g) ==
    /\ rfwCall[g].pc = "write"
    /\ LET p == rfwCall[g].p
           n == p
       IN  /\ disk' = [disk EXCEPT ![0].data =
                           IF p > 0 THEN Append(@, p) ELSE @]
           /\ currentSize' = currentSize + n
           /\ writeLog' = [writeLog EXCEPT ![rfwCall[g].id].n = n,
                                           ![rfwCall[g].id].err = ErrNil]
    /\ rfwMu' = "none"
    /\ rfwCall' = [rfwCall EXCEPT ![g] = NoWrite]
    /\ UNCHANGED currentFile
    /\ UNCHANGED <<schedVars, logVars, emVars, storeVars>>

\* ---------------------------------------------------------- specifications
\* what the coordinator and the clock do in every specification
NextRun ==
    \/ Start
    \/ SchedCheckCatchingUp("p1")
    \/ SchedGetHandler("p1")
    \/ SchedSend("p1")
    \/ RunEvent
    \/ RunTick
    \/ CatchUpStep
    \/ CatchUpDone
    \/ ProcessCurrent
    \/ Tock

\* Everything: one caller issues ScheduleEvent calls back to back, a second
\* caller pauses, resumes and stops the loop, handlers run.
Next ==
    \/ NextRun
    \/ \E req \in Requests :
          Len(callLog) < MaxCalls /\ SchedCheckPaused("p1", req)
    \/ toggles < MaxToggles /\ Pause("p2")
    \/ toggles < MaxToggles /\ Unpause("p2")
    \/ Stop("p2")
    \/ RunStop
    \/ RunPause("p2")
    \/ RunTickPaused
    \/ \E id \in 1..MaxCalls : HandlerDone(id)

Spec == Init /\ [][Next]_vars

\* scheduling and firing only
NextS ==
    \/ NextRun
    \/ \E req \in SchedRequests :
          Len(callLog) < SchedCalls /\ SchedCheckPaused("p1", req)

SpecSched == Init /\ [][NextS]_vars

\* scheduling, firing and the handler goroutines
NextE ==
    \/ NextRun
    \/ \E req \in ExecRequests :
          Len(callLog) < ExecCalls /\ SchedCheckPaused("p1", req)
    \/ \E id \in 1..ExecCalls : HandlerDone(id)

SpecExec == Init /\ [][NextE]_vars

\* scheduling and firing while a second caller stops the loop
NextH ==
    \/ NextRun
    \/ \E req \in StopRequests :
          Len(callLog) < StopCalls /\ SchedCheckPaused("p1", req)
    \/ Stop("p2")
    \/ RunStop

SpecStop == Init /\ [][NextH]_vars

\* scheduling and firing while a second caller pauses and resumes the loop
NextP ==
    \/ NextRun
    \/ \E req \in PauseRequests :
          Len(callLog) < PauseCalls /\ SchedCheckPaused("p1", req)
    \/ toggles < MaxToggles /\ Pause("p2")
    \/ toggles < MaxToggles /\ Unpause("p2")
    \/ RunPause("p2")
    \/ RunTickPaused

SpecPause == Init /\ [][NextP]_vars

\* scheduling and firing while two callers pause and resume the loop
NextPP ==
    \/ NextRun
    \/ \E req \in PauseRequests :
          Len(callLog) < PairCalls /\ SchedCheckPaused("p1", req)
    \/ \E p \in {"p2", "p3"} : toggles < PairToggles /\ Pause(p)
    \/ \E p \in {"p2", "p3"} : toggles < PairToggles /\ Unpause(p)
    \/ \E p \in {"p2", "p3"} : RunPause(p)
    \/ RunTickPaused

SpecPausePair == Init /\ [][NextPP]_vars

\* scheduling and firing while handlers are registered anew and the loop is
\* paused
NextR ==
    \/ NextRun
    \/ \E req \in RegRequests :
          Len(callLog) < RegCalls /\ SchedCheckPaused("p1", req)
    \/ \E fn \in Callables : RegisterHandler("ok", fn)
    \/ toggles < RegToggles /\ Pause("p2")
    \/ toggles < RegToggles /\ Unpause("p2")
    \/ RunPause("p2")
    \/ RunTickPaused
    \/ \E id \in 1..RegCalls : HandlerDone(id)

SpecRegistry == Init /\ [][NextR]_vars

\* scheduling against a submission channel of capacity SmallCap
NextF ==
    \/ Start
    \/ \E req \in FullRequests :
          Len(callLog) < FullCalls /\ SchedCheckPaused("p1", req)
    \/ SchedCheckCatchingUp("p1")
    \/ SchedGetHandler("p1")
    \/ SchedSendSmall("p1")
    \/ RunEvent
    \/ RunTick
    \/ CatchUpStep
    \/ CatchUpDone
    \/ ProcessCurrent
    \/ Tock

\* a caller inside ScheduleEvent goes on; the coordinator finishes the tick
\* it is in, and its select, which picks among the ready cases at random,
\* takes the submission case again and again while events are waiting
FairF ==
    /\ WF_vars(SchedCheckCatchingUp("p1"))
    /\ WF_vars(SchedGetHandler("p1"))
    /\ WF_vars(SchedSendSmall("p1"))
    /\ WF_vars(CatchUpStep)
    /\ WF_vars(CatchUpDone)
    /\ WF_vars(ProcessCurrent)
    /\ SF_vars(RunEvent)

SpecFull == Init /\ [][NextF]_vars /\ FairF

\* A loop built with any log configuration: calls are admitted or rejected,
\* the loop is paused and stopped, handlers return or panic
NextL ==
    \/ NextRun
    \/ \E req \in LogRequests :
          Len(callLog) < LogCalls /\ SchedCheckPaused("p1", req)
    \/ toggles < LogToggles /\ Pause("p2")
    \/ Stop("p2")
    \/ RunStop
    \/ RunPause("p2")
    \/ RunTickPaused
    \/ \E id \in 1..LogCalls : HandlerDone(id)

SpecLog == InitLog /\ [][NextL]_vars

\* NextL with every el.logInfo, el.logError and el.logWriter.Close() taken out
NextQuiet ==
    \/ StartSched
    \/ SchedCheckCatchingUpSched("p1")
    \/ SchedGetHandlerSched("p1")
    \/ SchedSendSched("p1")
    \/ RunEvent
    \/ RunTickSched
    \/ CatchUpStepSched
    \/ CatchUpDoneSched
    \/ ProcessCurrentSched
    \/ Tock
    \/ \E req \in LogRequests :
          Len(callLog) < LogCalls /\ SchedCheckPausedSched("p1", req)
    \/ toggles < LogToggles /\ PauseSched("p2")
    \/ StopSched("p2")
    \/ RunStop
    \/ RunPause("p2")
    \/ RunTickPaused
    \/ \E id \in 1..LogCalls : HandlerDoneSched(id)

\* the legacy EventManager with its client and the goroutine that runs it
NextM ==
    \/ \E listener \in EmListeners : RegisterListener(listener)
    \/ RegisterListenerAppend
    \/ \E eventType \in EmTypes : DispatchEvent(eventType)
    \/ \E eventType \in EmTypes : DispatchPriorityEvent(eventType)
    \/ DispatchEventSend
    \/ DispatchPriorityEventSend
    \/ EmStop
    \/ EmStopClosePrio
    \/ EmStopCloseQueue
    \/ EmRunCall
    \/ EmRunPrio
    \/ EmRunQueue
    \/ EmRunDefault
    \/ EmRunDeferPrio
    \/ EmRunDeferQueue
    \/ EmRunReturn

SpecManager == Init /\ [][NextM]_vars

\* one eventStorage and the goroutines that call its methods
NextStore ==
    \E g \in StoreProcs :
        \/ \E event \in StoreEvents : StAdd(g, event)
        \/ StAddAppend(g)
        \/ \E timestamp \in StoreTimes : StGetAndRemove(g, timestamp)
        \/ StGetAndRemoveRead(g)
        \/ StGetAndRemoveDelete(g)
        \/ \E t \in StoreTimes : StGetTimestampsUpTo(g, t)
        \/ StRange(g)
        \/ StSort(g)
        \/ StSortReturn(g)
        \/ \E t \in StoreTimes : StHasPastEvents(g, t)
        \/ StScan(g)
        \/ StScanReturn(g)

SpecStore == Init /\ [][NextStore]_vars

\* handlers that never return: calls are made, the loop is paused, resumed
\* and stopped, and no execution ever ends
NextHang ==
    \/ NextRun
    \/ \E req \in PauseRequests :
          Len(callLog) < HangCalls /\ SchedCheckPaused("p1", req)
    \/ toggles < HangToggles /\ Pause("p2")
    \/ toggles < HangToggles /\ Unpause("p2")
    \/ Stop("p2")
    \/ RunStop
    \/ RunPause("p2")
    \/ RunTickPaused

SpecHang == Init /\ [][NextHang]_vars

\* a goroutine that can run does run: a caller inside a call goes on, the
\* coordinator finishes the tick it is in, time passes, the ticker keeps
\* firing, and the select of run, which picks among its ready cases at
\* random, does not pass over a ready case forever
FairLoop ==
    /\ WF_vars(SchedCheckCatchingUp("p1"))
    /\ WF_vars(SchedGetHandler("p1"))
    /\ WF_vars(SchedSend("p1"))
    /\ WF_vars(CatchUpStep)
    /\ WF_vars(CatchUpDone)
    /\ WF_vars(ProcessCurrent)
    /\ WF_vars(Tock)
    /\ SF_vars(RunTick)
    /\ SF_vars(RunEvent)
    /\ \A p \in {"p2", "p3"} : SF_vars(RunPause(p))

\* one caller schedules, one pauses and resumes, under FairLoop
NextLive ==
    \/ NextRun
    \/ \E req \in PauseRequests :
          Len(callLog) < LiveCalls /\ SchedCheckPaused("p1", req)
    \/ toggles < LiveToggles /\ Pause("p2")
    \/ toggles < LiveToggles /\ Unpause("p2")
    \/ RunPause("p2")
    \/ RunTickPaused

SpecLive == Init /\ [][NextLive]_vars /\ FairLoop

\* two callers pause and resume, under FairLoop
SpecLivePair == Init /\ [][NextPP]_vars /\ FairLoop

\* one RotatingFileWriter and the goroutines that write to it
NextWriter ==
    \/ \E existing \in ExistingFiles : NewRotatingFileWriter(existing)
    \/ \E g \in Writers, p \in DataLengths : RfwWrite(g, p)
    \/ \E g \in Writers : RfwWriteFile(g)

SpecWriter == Init /\ [][NextWriter]_vars

\* the past-events scenario: three calls back to back
NextB ==
    \/ NextRun
    \/ \E req \in BurstRequests :
          Len(callLog) < BurstCalls /\ SchedCheckPaused("p1", req)

SpecBurst == Init /\ [][NextB]_vars

TypeOK ==
    /\ clock \in 0..MaxTime
    /\ stopChan \in {"open", "closed"}
    /\ isCatchingUp \in BOOLEAN /\ isPaused \in BOOLEAN /\ paused \in BOOLEAN
    /\ runPc \in {"idle", "select", "catchUp", "current", "exited"}
    /\ running \in BOOLEAN
    /\ Len(eventsPrioQueue.buf) <= QueueSize /\ Len(eventsQueue.buf) <= QueueSize
    /\ emRun.pc \in {"idle", "select", "deferPrio", "deferQueue",
                     "deferRunning", "fatal"}
    /\ mu.w \in StoreProcs \cup {"none"} /\ mu.r \subseteq StoreProcs
    /\ stCalls \in 0..StoreOps /\ inserted \in 0..StoreOps
    /\ currentFile \in {"nil", "open"} /\ rfwMu \in Writers \cup {"none"}
    /\ currentSize \in 0..MaxBytes /\ Len(writeLog) <= WriteCalls

\* ======================================================================
\* Properties
\* ======================================================================

\* the launches made by the tick in progress (or by the last tick)
TickLaunches == (tickStart + 1)..Len(fired)

\* the launches made by the step being taken
NewLaunches == (Len(fired) + 1)..Len(fired')

\* the step being taken starts a ScheduleEvent call
CallStarts == Len(callLog') = Len(callLog) + 1

\* C1 (as stated): every ScheduleEvent call made while IsCatchingUp() is
\* true returns the catching-up rejection error.
C1_AsStated ==
    [][ /\ (CallStarts /\ isCatchingUp)
            => callLog'[NextId].err \in {Pending, ErrCatchingUp}
        /\ \A p \in Procs :
              (pc[p] = "schedCatchingUp" /\ local[p].cu /\ pc'[p] # pc[p])
              => callLog'[local[p].id].err = ErrCatchingUp
      ]_vars

\* C1 (amended): a ScheduleEvent call whose own IsCatchingUp() check reads
\* true returns the catching-up rejection error without touching the
\* submission channel or the store, and an event rejected that way is never
\* on the channel, in the store or among the executions.  (The check is
\* reached only after IsPaused() read false; a paused loop answers with the
\* paused error.)
C1_CatchingUpRejects ==
    [][ /\ \A p \in Procs :
              (pc[p] = "schedCatchingUp" /\ isCatchingUp /\ pc'[p] # pc[p])
              => /\ pc'[p] = "idle"
                 /\ callLog'[local[p].id].err = ErrCatchingUp
                 /\ eventChan' = eventChan
                 /\ storage' = storage
        /\ \A id \in 1..Len(callLog') :
              callLog'[id].err = ErrCatchingUp
              => id \notin (ChanIds \cup StoredIds \cup FiredIds \cup HeldIds)'
      ]_vars

\* a call was rejected during a catch-up replay (nobody paused the loop) and
\* the loop went on ticking after it
C1_Witness ==
    /\ toggles = 0
    /\ \E id \in CallIds : callLog[id].err = ErrCatchingUp
    /\ fired # << >>
    /\ runPc = "select"
    /\ ~isCatchingUp

\* C2 (as stated): after Pause() a ScheduleEvent call with a registered
\* handler is rejected as paused, and the identical call made after the
\* following Unpause() has returned succeeds.  (Stated for calls made on a
\* loop that admitted nothing before, so that no replay can be in progress.)
C2_AsStated ==
    [][ /\ (CallStarts /\ isPaused) => callLog'[NextId].err = ErrPaused
        /\ \A p \in Procs :
              (/\ pc[p] \in {"schedCatchingUp", "schedGetHandler"}
               /\ pc'[p] # pc[p]
               /\ local[p].quiet
               /\ local[p].tg = toggles
               /\ Registered(callLog[local[p].id].Handler)
               /\ \A j \in 1..(local[p].id - 1) : callLog[j].err = ErrPaused)
              => pc'[p] \in {"schedGetHandler", "schedSend"}
      ]_vars

\* C3: when a tick reaches the bucket of the current timestamp, every event
\* that was stored with fireAt below the tick's sampled time has been
\* launched by this tick, exactly once, bucket by bucket in ascending fireAt
\* order, and nothing else has been launched by it.
C3_OverdueFirst ==
    runPc = "current" =>
        /\ \A k \in DOMAIN storage : k >= currentTime
        /\ overdue = {fired[i].id : i \in TickLaunches}
        /\ \A i, j \in TickLaunches :
              i < j => /\ fired[i].fireAt <= fired[j].fireAt
                       /\ fired[i].id # fired[j].id
        /\ \A i \in TickLaunches : fired[i].fireAt < currentTime
        /\ \A id \in overdue :
              Cardinality({i \in 1..Len(fired) : fired[i].id = id}) = 1

\* a tick replayed two overdue buckets and has reached the current one
C3_Witness ==
    /\ runPc = "current"
    /\ \E i, j \in TickLaunches : i < j /\ fired[i].fireAt < fired[j].fireAt

\* C4: no event is fired early: the time sampled by the tick that launches
\* an execution is at least the event's fireAt = Timestamp + Duration (so an
\* event admitted at (now, duration 2) is not fired below now + 2).
C4_NeverEarly ==
    [][ \A i \in NewLaunches :
            LET c == callLog[fired'[i].id]
            IN  /\ c.Timestamp + c.Duration <= currentTime
                /\ currentTime <= clock
                /\ c.at <= clock
      ]_vars

\* an event admitted with duration 2 at the current second has fired
C4_Witness ==
    \E i \in 1..Len(fired) :
        LET c == callLog[fired[i].id]
        IN  c.Duration = 2 /\ c.Timestamp = c.at /\ clock >= c.at + 2

\* the coordinator can take its next step
CoordinatorRuns ==
    /\ (runPc = "select" /\ ~paused) => ENABLED RunTick
    /\ (runPc = "select" /\ eventChan # << >>) => ENABLED RunEvent
    /\ runPc = "catchUp" => (ENABLED CatchUpStep \/ ENABLED CatchUpDone)
    /\ runPc = "current" => ENABLED ProcessCurrent

\* C5: a handler that panics affects only its own execution: the panic is
\* recovered, ends nothing but that execution, every other launched
\* execution can still run to completion and the coordinator goes on.
C5_FaultIsolated ==
    /\ [](/\ Alive
          /\ Started => runPc # "exited"
          /\ CoordinatorRuns
          /\ \A id \in DOMAIN execs :
                execs[id] = "running" => ENABLED HandlerDone(id))
    /\ [][ \A id \in DOMAIN execs :
              (execs[id] = "running" /\ execs'[id] # "running")
              => /\ execs'[id] = IF Panics(LaunchOf(id).handler)
                                 THEN "recovered" ELSE "returned"
                 /\ \A o \in DOMAIN execs \ {id} : execs'[o] = execs[o]
                 /\ UNCHANGED <<storage, eventChan, stopChan, isCatchingUp,
                                isPaused, runPc, paused, timestamps, pc,
                                callLog, fired>>
      ]_vars

\* a handler panicked, its sibling of the same bucket returned normally and
\* the coordinator is back at its wait
C5_Witness ==
    /\ runPc = "select"
    /\ \E a, b \in DOMAIN execs :
          /\ execs[a] = "recovered"
          /\ execs[b] = "returned"
          /\ LaunchOf(a).fireAt = LaunchOf(b).fireAt

\* C6 (as stated): when Stop() is invoked in the middle of a catch-up
\* replay, the overdue buckets not yet fired at that moment are never fired.
C6_AsStated ==
    stopInfo.pc = "catchUp" => stopInfo.overdue \cap FiredIds = {}

\* C6 (amended): when Stop() is invoked in the middle of a catch-up replay
\* the coordinator finishes the tick: by the time it is back at its wait
\* every overdue event that was unfired at the Stop() has been fired; it
\* exits only from the wait, never from inside the replay.
C6_StopFinishesReplay ==
    /\ []((stopInfo.pc = "catchUp" /\ runPc \in {"select", "exited"})
            => stopInfo.overdue \subseteq FiredIds)
    /\ [][ runPc' = "exited" /\ runPc # "exited"
              => runPc = "select" /\ stopChan = "closed" ]_vars

\* Stop() came in the middle of a replay with overdue events still unfired;
\* they were fired and the coordinator has exited
C6_Witness ==
    /\ stopInfo.pc = "catchUp"
    /\ stopInfo.overdue # {}
    /\ stopInfo.overdue \subseteq FiredIds
    /\ runPc = "exited"

\* C7 (as stated): once Stop() has been invoked while the coordinator is at
\* its wait, the coordinator's only step is the exit: it processes no
\* further tick and no further submission, and fires nothing.
C7_AsStated ==
    [][ stopInfo.pc = "select"
            => /\ storage' = storage
               /\ fired' = fired
               /\ runPc' \in {"select", "exited"} ]_vars

C9_AsStated ==
    [][ \A i \in NewLaunches :
            LET c == callLog[fired'[i].id]
            IN  (c.Duration = 0 /\ c.Timestamp = c.at) => runPc = "current"
      ]_vars

\* C9 (amended): an event whose fireAt equals the second a tick samples is
\* fired by that tick through the current-timestamp path: the tick enters
\* catch-up mode only for buckets strictly below the sampled time, replays
\* only such buckets, and then pops the whole bucket of the sampled time.
C9_CurrentPath ==
    [][ /\ (runPc = "select" /\ runPc' = "catchUp")
            => /\ \E k \in DOMAIN storage : k < clock
               /\ \A j \in 1..Len(timestamps') : timestamps'[j] < currentTime'
        /\ (runPc = "select" /\ runPc' = "current")
            => /\ ~isCatchingUp'
               /\ \A k \in DOMAIN storage : k >= clock
        /\ runPc = "catchUp"
            => \A i \in NewLaunches : fired'[i].fireAt < currentTime
        /\ (runPc = "current" /\ runPc' = "select")
            => /\ currentTime \notin DOMAIN storage'
               /\ \A e \in StoredEvents :
                     FireAt(e) = currentTime
                     => \E i \in NewLaunches : fired'[i].id = e.id
               /\ \A i \in NewLaunches : fired'[i].fireAt = currentTime
      ]_vars

\* an event admitted for the current second was fired by the tick that
\* sampled that second, without any catch-up
C9_Witness ==
    /\ runPc = "select"
    /\ ~isCatchingUp
    /\ overdue = {}
    /\ \E i \in TickLaunches :
          LET c == callLog[fired[i].id]
          IN  /\ c.Duration = 0
              /\ c.Timestamp = c.at
              /\ fired[i].fireAt = currentTime
    /\ \A i \in TickLaunches : fired[i].fireAt = currentTime

\* the three calls of the past-events scenario have been made: the same
\* second, registered handlers, fireAt five, three and one second back
BurstMade ==
    /\ Len(callLog) = 3
    /\ \A id \in 1..3 :
          /\ callLog[id].at = callLog[1].at
          /\ Registered(callLog[id].Handler)
    /\ FireAt(callLog[1]) = callLog[1].at - 5
    /\ FireAt(callLog[2]) = callLog[1].at - 3
    /\ FireAt(callLog[3]) = callLog[1].at - 1

\* C10 (as stated): three ScheduleEvent calls made back to back on a
\* running, unpaused loop with fireAt five, three and one second in the
\* past are all admitted, and all three fire during one tick: between two
\* ticks either none or all of them have fired.
C10_AsStated ==
    BurstMade =>
        /\ \A id \in 1..3 : callLog[id].err \in {Pending, ErrNil}
        /\ runPc = "select" => Len(fired) \in {0, 3}

\* the call with this id returns in the step being taken
Returns(id) ==
    /\ callLog'[id].err # Pending
    /\ (id > Len(callLog) \/ callLog[id].err = Pending)

Rejections == {ErrPaused, ErrCatchingUp, ErrHandlerNotFound}

C12_RejectionInert ==
    [][ \A id \in 1..Len(callLog') :
            /\ (Returns(id) /\ callLog'[id].err \in Rejections)
                  => /\ eventChan' = eventChan
                     /\ storage' = storage
                     /\ isPaused' = isPaused
                     /\ isCatchingUp' = isCatchingUp
                     /\ fired' = fired
            /\ callLog'[id].err \in Rejections
                  => id \notin (ChanIds \cup StoredIds \cup FiredIds
                                  \cup HeldIds)'
            /\ (id <= Len(callLog) /\ callLog[id].err \in Rejections)
                  => callLog'[id] = callLog[id]
      ]_vars

\* a call was rejected for its handler name and a later tick has run
C12_Witness ==
    /\ runPc = "select"
    /\ \E id \in CallIds :
          /\ callLog[id].err = ErrHandlerNotFound
          /\ currentTime > callLog[id].at

\* C13 (as stated): Pause() on an unpaused loop sets isCatchingUp, and once
\* Unpause() has returned and no catch-up replay is in progress,
\* IsCatchingUp() is false.
C13_AsStated ==
    /\ []((Quiet /\ runPc # "catchUp") => ~isCatchingUp)
    /\ [][ (isPaused' /\ ~isPaused) => isCatchingUp' ]_vars

\* everything but the count of Pause/Unpause calls
exceptToggles ==
    <<clock, storage, eventChan, stopChan, isCatchingUp, isPaused, runPc,
      paused, currentTime, timestamps, pc, local, callLog, fired, execs,
      tickStart, overdue, stopInfo, registry, logVars, elsewhere>>

\* C14: Pause() on a paused loop and Unpause() on a loop that is not paused
\* change nothing: neither flag, nothing sent on the pause channel, and the
\* caller is back at once.
C14_Idempotent ==
    [][ \A p \in Procs :
            /\ (Pause(p) /\ isPaused)
                  => (pc'[p] = "idle" /\ UNCHANGED exceptToggles)
            /\ (Unpause(p) /\ ~isPaused)
                  => (pc'[p] = "idle" /\ UNCHANGED exceptToggles)
      ]_vars

\* two calls were made, one of them on a loop already in the state asked
\* for, and the loop is paused with nobody waiting on the pause channel
C14_Witness ==
    /\ toggles = 2
    /\ isPaused /\ paused
    /\ \A p \in Procs : pc[p] = "idle"

\* C15 (as stated): in every reachable state, isPaused implies isCatchingUp.
C15_AsStated == isPaused => isCatchingUp

\* a Pause() call that paused the loop has returned and no Unpause() call
\* was made since
PauseHeld == isPaused /\ \A q \in Procs : pc[q] # "pauseSend"

\* C16 (as stated): between the return of a Pause() call that paused the
\* loop and the next Unpause() call no bucket is popped from the store, no
\* catch-up runs and no execution is launched.
C16_AsStated ==
    [][ PauseHeld
            => /\ fired' = fired
               /\ DOMAIN storage \subseteq DOMAIN storage'
               /\ runPc' # "catchUp"
               /\ isCatchingUp' = isCatchingUp ]_vars

\* C17: the handler of an event is resolved through the registry once, inside
\* the ScheduleEvent call that admits it; the callable launched and executed
\* when the event fires is the one that lookup returned, whatever the
\* registry holds by then; calls rejected as paused or catching up make no
\* lookup.
C17_ResolvedAtAdmission ==
    [][ /\ \A i \in NewLaunches :
              fired'[i].handler = callLog[fired'[i].id].resolved
        /\ \A id \in DOMAIN execs :
              (execs[id] = "running" /\ execs'[id] # "running")
              => execs'[id] = executeHandler(callLog[id].resolved)
        /\ \A id \in 1..Len(callLog') :
              /\ callLog'[id].err = ErrNil => callLog'[id].lookups = 1
              /\ callLog'[id].err \in {ErrPaused, ErrCatchingUp}
                    => callLog'[id].lookups = 0
              /\ (id <= Len(callLog)
                    /\ callLog'[id].lookups # callLog[id].lookups)
                    => \E p \in Procs :
                          pc[p] = "schedGetHandler" /\ local[p].id = id
      ]_vars

\* an event was admitted, its name was registered anew with another
\* callable, and the callable of the admission was executed
C17_Witness ==
    \E i \in 1..Len(fired) :
        LET id == fired[i].id
        IN  /\ fired[i].handler = "fnOk"
            /\ registry[callLog[id].Handler] = "fnBoom"
            /\ execs[id] = "returned"

\* C18: no event instance is executed more than once: an event that has
\* been fired is neither in the store nor on the submission channel, it was
\* launched once, and one execution exists for it.
C18_FiredOnce ==
    /\ FiredIds \cap (StoredIds \cup ChanIds \cup HeldIds) = {}
    /\ \A i, j \in 1..Len(fired) : i # j => fired[i].id # fired[j].id
    /\ DOMAIN execs = FiredIds
    /\ Cardinality(FiredIds) = Len(fired)

\* an event has fired and a later tick, sampling a time at or after its
\* fireAt, has run to its end without launching anything
C18_Witness ==
    /\ runPc = "select"
    /\ fired # << >>
    /\ tickStart = Len(fired)
    /\ \A i \in 1..Len(fired) : fired[i].fireAt <= currentTime

\* C19: the submission path is bounded and blocking: the channel never
\* holds more than its capacity; a successful ScheduleEvent returns in the
\* step that puts its event on the channel, before the store insertion; on a
\* full channel the call stays pending with its event in hand and nothing is
\* dropped or rejected; and every call eventually returns while the
\* coordinator runs.
C19_BoundedBlocking ==
    /\ [](/\ Len(eventChan) <= SmallCap
          /\ SmallCap <= EventChanCap
          /\ \A p \in Procs :
                (pc[p] = "schedSend" /\ Len(eventChan) >= SmallCap)
                => /\ callLog[local[p].id].err = Pending
                   /\ ~ENABLED SchedSendSmall(p)
                   /\ (runPc = "select" => ENABLED RunEvent))
    /\ [][ \A p \in Procs :
              (pc[p] = "schedSend" /\ pc'[p] # "schedSend")
              => /\ Len(eventChan) < SmallCap
                 /\ eventChan' = Append(eventChan, local[p])
                 /\ callLog'[local[p].id].err = ErrNil
                 /\ local[p].id \notin StoredIds'
                 /\ storage' = storage
      ]_vars
    /\ \A id \in 1..FullCalls :
          (Len(callLog) >= id /\ callLog[id].err = Pending)
             ~> (Len(callLog) >= id /\ callLog[id].err # Pending)

\* a call waits with its event in hand for room on the full channel
C19_Witness ==
    /\ pc["p1"] = "schedSend"
    /\ Len(eventChan) = SmallCap
    /\ callLog[local["p1"].id].err = Pending
    /\ runPc \in {"catchUp", "current"}


\* C20: logging does not alter scheduling.  Whatever the log configuration
\* the loop was built with (none, disabled, a writer that failed to open, or
\* a working logger with or without INFO records), and also after Stop has
\* closed the writer, (1) every step changes the scheduling state (admission
\* results, flags, storage, channels, fired events) exactly as the same step
\* with all logging taken out would, and (2) every step that is possible with
\* logging taken out is possible with it: no log call blocks or fails an
\* operation.
C20_LoggingInert ==
    /\ [][NextQuiet]_schedVars
    /\ [](/\ ENABLED StartSched => ENABLED Start
          /\ ENABLED RunTickSched => ENABLED RunTick
          /\ ENABLED CatchUpStepSched => ENABLED CatchUpStep
          /\ ENABLED CatchUpDoneSched => ENABLED CatchUpDone
          /\ ENABLED ProcessCurrentSched => ENABLED ProcessCurrent
          /\ \A p \in Procs :
                /\ ENABLED StopSched(p) => ENABLED Stop(p)
                /\ ENABLED PauseSched(p) => ENABLED Pause(p)
                /\ ENABLED UnpauseSched(p) => ENABLED Unpause(p)
                /\ ENABLED SchedCheckCatchingUpSched(p)
                      => ENABLED SchedCheckCatchingUp(p)
                /\ ENABLED SchedGetHandlerSched(p)
                      => ENABLED SchedGetHandler(p)
                /\ ENABLED SchedSendSched(p) => ENABLED SchedSend(p)
                /\ \A req \in LogRequests :
                      ENABLED SchedCheckPausedSched(p, req)
                         => ENABLED SchedCheckPaused(p, req)
          /\ \A id \in 1..LogCalls :
                ENABLED HandlerDoneSched(id) => ENABLED HandlerDone(id))

\* a loop that logs INFO and ERROR records admitted an overdue event, fired
\* it, and wrote the records of the admission and of the handler's panic
C20_Witness ==
    /\ logger
    /\ includeInfo
    /\ {"event scheduled", "handler panicked"} \subseteq logged
    /\ Len(fired) > 0
    /\ \E id \in DOMAIN callLog : callLog[id].err = ErrNil

\* C21 (as stated): once Stop() has closed a queue of a running manager no
\* event still pending in that queue is handled; when Run returns both queues
\* are empty; and neither Stop nor Run changes the registered listeners.
C21_AsStated ==
    /\ [](\A i \in 1..Len(handled) : ~handled[i].closed)
    /\ [][ /\ (emRun.pc = "deferRunning" /\ emRun'.pc = "idle")
                => /\ eventsPrioQueue'.buf = << >>
                   /\ eventsQueue'.buf = << >>
           /\ (emCall.op = "Stop" \/ emRun' # emRun \/ handled' # handled)
                => genericListeners' = genericListeners ]_vars

\* a RegisterListener call begins in this step
RegisterStarts ==
    /\ emCall.pc = "idle"
    /\ \/ emCall'.op = "RegisterListener"
       \/ /\ Len(emLog') > Len(emLog)
          /\ emLog'[Len(emLog')].op = "RegisterListener"

\* C22: RegisterListener called while the manager is running panics and
\* leaves the listener map as it is; called while it is not running it
\* appends the listener at the end of the list of its Type(), creating the
\* list if the type has none, and keeps every other list; nothing else ever
\* changes the listener map.
C22_RegisterGuard ==
    [][ /\ (RegisterStarts /\ running)
             => /\ emLog' = Append(emLog, [op |-> "RegisterListener",
                                           result |-> "panic"])
                /\ emCall' = emCall
                /\ genericListeners' = genericListeners
        /\ (RegisterStarts /\ ~running)
             => /\ emCall'.pc = "append"
                /\ emCall'.listener \in EmListeners
                /\ emLog' = emLog
                /\ genericListeners' = genericListeners
        /\ (emCall.pc = "append" /\ emCall' # emCall)
             => LET t == Type(emCall.listener)
                IN  /\ DOMAIN genericListeners' = DOMAIN genericListeners \cup {t}
                    /\ genericListeners'[t] =
                          Append(ListenersOf(t), emCall.listener)
                    /\ \A k \in DOMAIN genericListeners \ {t} :
                          genericListeners'[k] = genericListeners[k]
                    /\ emLog' = Append(emLog, [op |-> "RegisterListener",
                                               result |-> "ok"])
        /\ genericListeners' # genericListeners => emCall.pc = "append"
      ]_vars

\* two listeners of one type were registered in order, then a third
\* registration on the running manager panicked
C22_Witness ==
    /\ running
    /\ ListenersOf(1) \in {<<"la", "lb">>, <<"lb", "la">>}
    /\ Len(emLog) = 3
    /\ emLog[3] = [op |-> "RegisterListener", result |-> "panic"]

\* the tick in progress ends in this step
TickEnds == runPc = "current" /\ runPc' = "select"

\* C23: when a tick that was not dropped for a pause completes, the store
\* holds no key less than or equal to the time now the tick sampled: the
\* replay has popped every key below now before the tick turns to the bucket
\* for now, and the tick has popped that bucket when it ends.
C23_NothingDueLeft ==
    [][ /\ (runPc = "catchUp" /\ runPc' = "current")
             => \A k \in DOMAIN storage' : k >= currentTime
        /\ runPc = "current" => \A k \in DOMAIN storage : k >= currentTime
        /\ TickEnds => \A k \in DOMAIN storage' : k > currentTime
      ]_vars

\* a tick has just ended that replayed an overdue bucket and fired the bucket
\* for now
C23_Witness ==
    /\ runPc = "select"
    /\ tickStart < Len(fired)
    /\ \E i, j \in TickLaunches :
          fired[i].fireAt < currentTime /\ fired[j].fireAt = currentTime
    /\ \A k \in DOMAIN storage : k > currentTime

\* the coordinator is inside processTick
InTick == runPc \in {"catchUp", "current"}

\* the step is one of processTick's own
TickStep ==
    \/ runPc = "select" /\ runPc' \in {"catchUp", "current"}
    \/ InTick /\ (runPc' # runPc \/ timestamps' # timestamps)

\* the buckets keyed above t
Above(es, t) == [k \in {x \in DOMAIN es : x > t} |-> es[k]]

\* C24: a tick that sampled the time now leaves every bucket keyed above now
\* as it is, events and order, from its first step to its last (no step of
\* another goroutine touches the store meanwhile either); the tick's own
\* steps leave the submission channel and isPaused unchanged.
C24_TickFrame ==
    [][ /\ TickStep
             => /\ Above(storage', currentTime') = Above(storage, currentTime')
                /\ eventChan' = eventChan
                /\ isPaused' = isPaused
        /\ InTick
             => Above(storage', currentTime) = Above(storage, currentTime)
      ]_vars

\* a tick replayed an overdue bucket while a bucket for a later second was
\* stored; the tick has ended and that bucket is still there
C24_Witness ==
    /\ runPc = "select"
    /\ \E i \in TickLaunches : fired[i].fireAt < currentTime
    /\ \E k \in DOMAIN storage : k > currentTime /\ Len(storage[k]) > 0

\* C25: a tick enters the catch-up replay exactly when the store holds a key
\* strictly below the time now it samples; it sets isCatchingUp to true
\* before it pops the first overdue bucket and to false after the last one;
\* a tick that finds no such key does not write isCatchingUp.  With no
\* Pause() call, isCatchingUp is true only while the coordinator is inside
\* the replay.
C25_CatchUpFlag ==
    /\ [](isCatchingUp <=> runPc = "catchUp")
    /\ [][ /\ (runPc = "select" /\ runPc' \in {"catchUp", "current"})
                => /\ runPc' = "catchUp"
                        <=> \E k \in DOMAIN storage : k < currentTime'
                   /\ runPc' = "catchUp"
                        => /\ isCatchingUp'
                           /\ storage' = storage
                           /\ \A k \in DOMAIN storage :
                                 k < currentTime'
                                    <=> \E i \in 1..Len(timestamps') :
                                           timestamps'[i] = k
                   /\ runPc' = "current" => isCatchingUp' = isCatchingUp
           /\ (runPc = "catchUp" /\ storage' # storage)
                => isCatchingUp /\ isCatchingUp'
           /\ (runPc = "catchUp" /\ runPc' = "current")
                => /\ timestamps = << >>
                   /\ ~isCatchingUp'
                   /\ storage' = storage
           /\ (runPc = "current" /\ TickStep)
                => isCatchingUp' = isCatchingUp
         ]_vars

\* a tick has replayed an overdue bucket and cleared the flag, and is about
\* to turn to the bucket for now
C25_Witness ==
    /\ runPc = "current"
    /\ ~isCatchingUp
    /\ \E i \in TickLaunches : fired[i].fireAt < currentTime

\* the sequence lists the elements of S, each once, in ascending order
AscendingListOf(seq, S) ==
    /\ Len(seq) = Cardinality(S)
    /\ {seq[i] : i \in 1..Len(seq)} = S
    /\ \A i \in 1..(Len(seq) - 1) : seq[i] < seq[i + 1]

\* the goroutine returns from the method in this step
StReturns(g, op) == stCall[g].op = op /\ stCall'[g].pc = "idle"

\* C26: getTimestampsUpTo(ts) returns the keys of the store that are less
\* than or equal to ts, all of them, each once, in strictly ascending order,
\* whatever the store holds, whatever ts is and in whatever order the map
\* yields its keys; the store is the same from the call to the return.
C26_KeysUpTo ==
    /\ [](\A t \in StoreTimes :
             AscendingListOf(getTimestampsUpTo(events, t),
                             {k \in DOMAIN events : k <= t}))
    /\ [][ \A g \in StoreProcs :
              /\ StReturns(g, "getTimestampsUpTo")
                   => AscendingListOf(stCall[g].timestamps,
                                      {k \in DOMAIN events :
                                          k <= stCall[g].currentTime})
              /\ stCall[g].op = "getTimestampsUpTo" => events' = events
         ]_vars

\* a call is about to return the three keys of the store, which the map
\* yielded in descending order
C26_Witness ==
    \E g \in StoreProcs :
        /\ stCall[g].op = "getTimestampsUpTo"
        /\ stCall[g].pc = "return"
        /\ stCall[g].ranged = <<2, 1, 0>>
        /\ stCall[g].timestamps = <<0, 1, 2>>

\* the events of a sequence, and the events a store holds
Elems(seq) == {seq[i] : i \in 1..Len(seq)}
Held(es) == UNION {Elems(es[k]) : k \in DOMAIN es}

\* the bucket of the store for a key, empty when the key is absent
Bucket(es, k) == IF k \in DOMAIN es THEN es[k] ELSE << >>

\* C27: getAndRemove(ts) is atomic with respect to the other methods: from
\* its entry to its return it holds the mutex alone, so no other goroutine
\* is inside add, getTimestampsUpTo, hasPastEvents or getAndRemove meanwhile
\* and none sees the bucket read but not yet deleted; it returns the whole
\* bucket of ts (an empty sequence if the key is absent); at its return the
\* key ts is absent, every other bucket is as it was, and no returned event
\* is still stored.
C27_AtomicPop ==
    /\ [](\A g \in StoreProcs :
             stCall[g].op = "getAndRemove"
                => /\ mu = [w |-> g, r |-> {}]
                   /\ \A h \in StoreProcs \ {g} : stCall[h].pc = "idle"
                   /\ stCall[g].pc = "delete"
                         => stCall[g].events = Bucket(events,
                                                      stCall[g].timestamp))
    /\ [][ \A g \in StoreProcs :
              /\ StReturns(g, "getAndRemove")
                   => LET ts == stCall[g].timestamp
                      IN  /\ stCall[g].events = Bucket(events, ts)
                          /\ DOMAIN events' = DOMAIN events \ {ts}
                          /\ \A k \in DOMAIN events' : events'[k] = events[k]
                          /\ Elems(stCall[g].events) \cap Held(events') = {}
              /\ (stCall[g].op = "getAndRemove" /\ ~StReturns(g, "getAndRemove"))
                   => events' = events
         ]_vars

\* a call has read a bucket of two events and is about to delete it, and the
\* store holds another bucket
C27_Witness ==
    \E g \in StoreProcs :
        /\ stCall[g].op = "getAndRemove"
        /\ stCall[g].pc = "delete"
        /\ Len(stCall[g].events) = 2
        /\ DOMAIN events \ {stCall[g].timestamp} # {}

\* C28: add(event) appends the event at the end of the bucket keyed
\* Timestamp + Duration, creating the bucket if the key is absent, and
\* changes no other bucket; whatever add and getAndRemove calls were made,
\* every key of the store maps to a non-empty bucket of events with that
\* Timestamp + Duration, listed in the order they were inserted.
C28_Buckets ==
    /\ [](\A k \in DOMAIN events :
             /\ Len(events[k]) > 0
             /\ \A i \in 1..Len(events[k]) :
                   /\ FireAt(events[k][i]) = k
                   /\ i > 1 => events[k][i - 1].n < events[k][i].n)
    /\ [][ \A g \in StoreProcs :
              /\ StReturns(g, "add")
                   => LET e == stCall[g].event
                          k == e.Timestamp + e.Duration
                          new == events'[k][Len(events'[k])]
                      IN  /\ DOMAIN events' = DOMAIN events \cup {k}
                          /\ events'[k] = Append(Bucket(events, k), new)
                          /\ new.Timestamp = e.Timestamp
                          /\ new.Duration = e.Duration
                          /\ new.n = inserted'
                          /\ \A j \in DOMAIN events \ {k} :
                                events'[j] = events[j]
              /\ (stCall[g].op = "add" /\ ~StReturns(g, "add"))
                   => events' = events
         ]_vars

\* three events were added and one bucket was popped: the bucket for key 1
\* holds the two events with that key, the one added first in front
C28_Witness ==
    /\ inserted = 3
    /\ Cardinality(Held(events)) = 2
    /\ 1 \in DOMAIN events
    /\ Len(events[1]) = 2
    /\ events[1][1].Timestamp # events[1][2].Timestamp
    /\ \A g \in StoreProcs : stCall[g].pc = "idle"

\* the times a tick can sample, and one second to either side of every key
\* a caller of SpecSched can produce
TickTimes == (-6)..(MaxTime + 3)

\* C29: hasPastEvents(now) is true exactly when some key of the store is
\* strictly below now, which is exactly when getTimestampsUpTo(now - 1) is
\* not empty; so a tick enters the catch-up replay exactly when the replay
\* list it then computes is not empty.
C29_PastIffReplayList ==
    /\ [](\A now \in TickTimes :
             /\ hasPastEvents(storage, now)
                   <=> \E k \in DOMAIN storage : k < now
             /\ hasPastEvents(storage, now)
                   <=> getTimestampsUpTo(storage, now - 1) # << >>)
    /\ [][ (runPc = "select" /\ runPc' \in {"catchUp", "current"})
              => /\ runPc' = "catchUp"
                      <=> getTimestampsUpTo(storage, currentTime' - 1) # << >>
                 /\ runPc' = "catchUp"
                      => /\ timestamps' =
                               getTimestampsUpTo(storage, currentTime' - 1)
                         /\ timestamps' # << >>
                 /\ runPc' = "current" => timestamps' = << >>
         ]_vars

\* a tick has entered the replay with a list of one overdue key while the
\* store also holds a key that is not overdue
C29_Witness ==
    /\ runPc = "catchUp"
    /\ Len(timestamps) = 1
    /\ timestamps[1] < currentTime
    /\ \E k \in DOMAIN storage : k >= currentTime

\* the step is a call of processTimestamp, by the replay or for the bucket
\* of now, and the timestamp it is called with
ReplaysBucket == runPc = "catchUp" /\ timestamps' # timestamps
PoppedTimestamp == IF ReplaysBucket THEN Head(timestamps) ELSE currentTime

\* C30: processTimestamp(ts) pops the bucket of ts and launches one
\* execution per event of that bucket, in bucket order, each a goroutine of
\* its own with that event's payload and the handler resolved for it: n
\* events give n executions; an absent bucket gives none and changes
\* nothing.  Nothing else launches an execution.
C30_OneExecutionPerEvent ==
    [][ /\ (ReplaysBucket \/ TickEnds)
             => LET ts == PoppedTimestamp
                    b == Bucket(storage, ts)
                    n == Len(fired)
                IN  /\ DOMAIN storage' = DOMAIN storage \ {ts}
                    /\ \A k \in DOMAIN storage' : storage'[k] = storage[k]
                    /\ Len(fired') = n + Len(b)
                    /\ \A i \in 1..n : fired'[i] = fired[i]
                    /\ \A i \in 1..Len(b) :
                          /\ fired'[n + i].id = b[i].id
                          /\ fired'[n + i].Payload = b[i].Payload
                          /\ fired'[n + i].handler = b[i].handler
                          /\ fired'[n + i].fireAt = ts
                          /\ b[i].id \notin DOMAIN execs
                          /\ execs'[b[i].id] = "running"
                    /\ Cardinality({b[i].id : i \in 1..Len(b)}) = Len(b)
                    /\ DOMAIN execs' =
                          DOMAIN execs \cup {b[i].id : i \in 1..Len(b)}
                    /\ \A id \in DOMAIN execs : execs'[id] = execs[id]
                    /\ ts \notin DOMAIN storage
                          => storage' = storage /\ fired' = fired
                                                /\ execs' = execs
        /\ (fired' # fired \/ DOMAIN execs' # DOMAIN execs)
             => (ReplaysBucket \/ TickEnds)
      ]_vars

\* a tick has just popped a bucket of two events and launched both
C30_Witness ==
    /\ runPc = "select"
    /\ Len(fired) = tickStart + 2
    /\ fired[tickStart + 1].fireAt = fired[tickStart + 2].fireAt
    /\ fired[tickStart + 1].id # fired[tickStart + 2].id
    /\ {fired[tickStart + 1].id, fired[tickStart + 2].id} \subseteq DOMAIN execs

\* the store after the step holds some of the buckets it held, each unchanged
OnlyLosesBuckets ==
    /\ DOMAIN storage' \subseteq DOMAIN storage
    /\ \A k \in DOMAIN storage' : storage'[k] = storage[k]

\* C31: no event is inserted into the store while a catch-up replay is in
\* progress: from the step of a tick that sets isCatchingUp to the step that
\* clears it the store only loses buckets; only the coordinator takes
\* submissions off the channel, between ticks, and nothing else inserts.
C31_NoInsertMidReplay ==
    [][ /\ (runPc = "catchUp" \/ runPc' = "catchUp") => OnlyLosesBuckets
        /\ (eventChan' # eventChan /\ Len(eventChan') <= Len(eventChan))
              => /\ runPc = "select" /\ runPc' = "select"
                 /\ eventChan' = Tail(eventChan)
                 /\ storage' = add(storage, Head(eventChan))
        /\ ~OnlyLosesBuckets
              => /\ runPc = "select" /\ runPc' = "select"
                 /\ eventChan # << >>
                 /\ eventChan' = Tail(eventChan) ]_vars

\* a replay has popped a bucket and is still in progress while a submission
\* waits on the channel
C31_Witness ==
    /\ runPc = "catchUp"
    /\ isCatchingUp
    /\ Len(fired) > tickStart
    /\ eventChan # << >>

\* an execution was launched and has not returned
Hung == \E id \in DOMAIN execs : execs[id] = "running"

\* C32: the coordinator never waits for a handler and no lock is held while
\* one runs: with an execution that does not return, the coordinator can
\* take the tick, the submission, the pause signal and the stop signal it is
\* ready for, goes on inside a tick, and every caller inside or at the start
\* of ScheduleEvent (with its IsPaused and IsCatchingUp reads), Pause,
\* Unpause and Stop can take its next step.
C32_NeverWaitsForHandler ==
    Hung =>
      /\ (runPc = "select" /\ ~paused) => ENABLED RunTick
      /\ (runPc = "select" /\ paused) => ENABLED RunTickPaused
      /\ (runPc = "select" /\ eventChan # << >>) => ENABLED RunEvent
      /\ (runPc = "select" /\ stopChan = "closed") => ENABLED RunStop
      /\ (runPc = "catchUp" /\ timestamps # << >>) => ENABLED CatchUpStep
      /\ (runPc = "catchUp" /\ timestamps = << >>) => ENABLED CatchUpDone
      /\ (runPc = "current") => ENABLED ProcessCurrent
      /\ \A p \in Procs :
            /\ (runPc = "select" /\ pc[p] \in {"pauseSend", "unpauseSend"})
                  => ENABLED RunPause(p)
            /\ (pc[p] = "schedCatchingUp") => ENABLED SchedCheckCatchingUp(p)
            /\ (pc[p] = "schedGetHandler") => ENABLED SchedGetHandler(p)
            /\ (pc[p] = "schedSend" /\ Len(eventChan) < EventChanCap)
                  => ENABLED SchedSend(p)
            /\ (pc[p] = "idle" /\ InUse)
                  => /\ \A req \in PauseRequests :
                           ENABLED SchedCheckPaused(p, req)
                     /\ ENABLED Pause(p)
                     /\ ENABLED Unpause(p)
                     /\ ENABLED Stop(p)

\* the first execution never returned; since its launch the coordinator took
\* a submission, fired it on a later tick, took the pause signal and the
\* stop signal
C32_Witness ==
    /\ Len(fired) = 2
    /\ tickStart = 1
    /\ execs[fired[1].id] = "running"
    /\ paused
    /\ runPc = "exited"

\* the step being taken places an event on the submission channel
Submits == Len(eventChan') > Len(eventChan)

\* C33 (as stated): admission is atomic with the gate: no ScheduleEvent call
\* that returns success places its event on the submission channel at a
\* moment when isPaused or isCatchingUp is true.
C33_AsStated ==
    [][ Submits => (~isPaused /\ ~isCatchingUp) ]_vars

\* no Pause() or Unpause() call is in progress
NoToggleInProgress == \A q \in Procs : pc[q] \notin {"pauseSend", "unpauseSend"}

\* C34 (as stated): whenever no Pause() or Unpause() call is in progress the
\* coordinator's own paused state agrees with the isPaused flag: it ignores
\* ticks if and only if IsPaused() is true.
C34_AsStated ==
    NoToggleInProgress =>
        /\ paused = isPaused
        /\ (runPc = "select" /\ stopChan = "open")
              => (ENABLED RunTickPaused <=> isPaused)

\* the ScheduleEvent call returned success
Admitted(id) == id \in DOMAIN callLog /\ callLog[id].err = ErrNil

\* C35 (as stated): every event for which ScheduleEvent returned success is
\* eventually fired, provided the loop is never stopped, is not left paused
\* forever and ticks keep occurring.
C35_AsStated ==
    []<>(~isPaused)
        => \A id \in 1..PairCalls : [](Admitted(id) => <>(id \in FiredIds))

\* the step being taken is the critical section of a Pause() or Unpause()
ToggleStep == toggles' # toggles

\* the events in the store or waiting on the submission channel
HeldOrPending == StoredIds \cup ChanIds

\* C36 (as stated): pausing loses no event: Pause() and Unpause() leave the
\* store unchanged, a paused coordinator still takes the submissions
\* waiting on the channel and inserts them, and every event stored or
\* pending while the loop is paused is fired once it has been resumed.
C36_AsStated ==
    /\ [][ ToggleStep => (storage' = storage /\ eventChan' = eventChan) ]_vars
    /\ []((paused /\ runPc = "select" /\ eventChan # << >>) => ENABLED RunEvent)
    /\ ([]<>(~isPaused)
          => \A id \in 1..PairCalls :
                []((isPaused /\ id \in HeldOrPending) => <>(id \in FiredIds)))

\* C37: on a started loop that is not stopped every Pause() and Unpause()
\* call returns: its send on the pause channel is taken by the coordinator,
\* whether the call was made while the coordinator was idle, inserting a
\* submission or in the middle of a catch-up replay.
C37_TogglesReturn ==
    \A p \in Procs :
        [](pc[p] \in {"pauseSend", "unpauseSend"} => <>(pc[p] = "idle"))

\* a Pause() made in the middle of a replay waits on the pause channel
C37_Witness ==
    /\ pc["p2"] = "pauseSend"
    /\ runPc = "catchUp"
    /\ Len(fired) > tickStart

\* C38 (as stated): the coordinator pops no bucket and launches no execution
\* in a state where isPaused is true, the interval between the flag update
\* of a Pause() call and its return included.
C38_AsStated ==
    [][ isPaused
            => /\ fired' = fired
               /\ DOMAIN storage \subseteq DOMAIN storage' ]_vars

\* the step being taken is the first of a Write: it takes the mutex
WriteStarts == rfwMu = "none" /\ rfwMu' # "none"

====
